---- MODULE Spec2Model ----
(***************************************************************************)
(* SaveBite: the localStorage-backed pseudo-API (ApiService), the          *)
(* authentication service (AuthService) and the page handlers that call    *)
(* them (ListingService.addToCart, the cart page buttons, the checkout     *)
(* form).                                                                  *)
(*                                                                         *)
(* Conventions                                                             *)
(*  - a JavaScript value that may be null/undefined is a sequence of       *)
(*    length 0 or 1;                                                       *)
(*  - findIndex returns 0 where JavaScript returns -1;                     *)
(*  - the clock `now` counts days; two handlers that run with no Tick      *)
(*    between them read the same Date.now();                               *)
(*  - a price is stored as its number of cents; where the code computes    *)
(*    with it, it is the binary64 number that parseFloat gives for its     *)
(*    decimal text, and the amounts of an order are binary64 numbers.      *)
(***************************************************************************)
EXTENDS Integers, Sequences, FiniteSets, TLC

VARIABLES
  users,      \* localStorage["savebite_users"]    : sequence of users
  session,    \* localStorage["savebite_session"]  : <<>> or <<session>>
  listings,   \* localStorage["savebite_listings"] : sequence of listings
  cart,       \* localStorage["savebite_cart"].items : sequence of cart items
  orders,     \* localStorage["savebite_orders"]   : sequence of orders
  now,        \* Date.now(), in days
  timers,     \* pending setTimeout callbacks of ApiService calls, in scheduling order
  view,       \* page DOM: <<>> (not rendered) or <<rendered items or cards>>
  result      \* what the last handler resolved / returned

vars == <<users, session, listings, cart, orders, now, timers, view, result>>

----------------------------------------------------------------------------
\* Bounds of the model

MaxTime == 2
MaxListings == 2
MaxOrders == 1
MaxCartQty == 3
MaxPending == 2
NumRandom == 2
MaxUsers == 5

----------------------------------------------------------------------------
\* Program constants

SessionDays == 7
TaxRate == 8

----------------------------------------------------------------------------
\* Generic helpers

\* Array.prototype.findIndex with the test "element.id === id"
IndexOfId(s, id) ==
  IF \E i \in 1..Len(s) : s[i].id = id
  THEN CHOOSE i \in 1..Len(s) : s[i].id = id /\ \A j \in 1..(i - 1) : s[j].id # id
  ELSE 0

\* Array.prototype.splice(i, 1)
RemoveAt(s, i) == [j \in 1..(Len(s) - 1) |-> IF j < i THEN s[j] ELSE s[j + 1]]

\* Array.prototype.reduce((total, x) => total + x, 0)
RECURSIVE Sum(_)
Sum(s) == IF s = <<>> THEN 0 ELSE Head(s) + Sum(Tail(s))

Ids(s) == {s[i].id : i \in 1..Len(s)}

\* String.prototype.toLowerCase on the e-mail addresses of the model
toLowerCase(e) ==
  CASE e = "Cust@x.com" -> "cust@x.com"
    [] e = "CUST@x.com" -> "cust@x.com"
    [] OTHER -> e

\* The characters of the texts of the model (names, descriptions, search terms)
Chars(t) ==
  CASE t = "Pasta" -> <<"P", "a", "s", "t", "a">>
    [] t = "Bread" -> <<"B", "r", "e", "a", "d">>
    [] t = "Fresh pasta" -> <<"F", "r", "e", "s", "h", " ", "p", "a", "s", "t", "a">>
    [] t = "Rye loaf" -> <<"R", "y", "e", " ", "l", "o", "a", "f">>
    [] t = "Vegetable Pasta Salad" -> <<"V", "e", "g", "e", "t", "a", "b", "l", "e", " ", "P", "a", "s", "t", "a", " ", "S", "a", "l", "a", "d">>
    [] t = "Avocado Sandwich" -> <<"A", "v", "o", "c", "a", "d", "o", " ", "S", "a", "n", "d", "w", "i", "c", "h">>
    [] t = "Assorted Pastry Box" -> <<"A", "s", "s", "o", "r", "t", "e", "d", " ", "P", "a", "s", "t", "r", "y", " ", "B", "o", "x">>
    [] t = "Artisan Bread Loaf" -> <<"A", "r", "t", "i", "s", "a", "n", " ", "B", "r", "e", "a", "d", " ", "L", "o", "a", "f">>
    [] t = "Organic Fruit Box" -> <<"O", "r", "g", "a", "n", "i", "c", " ", "F", "r", "u", "i", "t", " ", "B", "o", "x">>
    [] t = "Fresh Dairy Bundle" -> <<"F", "r", "e", "s", "h", " ", "D", "a", "i", "r", "y", " ", "B", "u", "n", "d", "l", "e">>
    [] t = "Fresh pasta salad" -> <<"F", "r", "e", "s", "h", " ", "p", "a", "s", "t", "a", " ", "s", "a", "l", "a", "d">>
    [] t = "Whole grain bread" -> <<"W", "h", "o", "l", "e", " ", "g", "r", "a", "i", "n", " ", "b", "r", "e", "a", "d">>
    [] t = "Daily fresh pastries" -> <<"D", "a", "i", "l", "y", " ", "f", "r", "e", "s", "h", " ", "p", "a", "s", "t", "r", "i", "e", "s">>
    [] t = "Artisan sourdough bread" -> <<"A", "r", "t", "i", "s", "a", "n", " ", "s", "o", "u", "r", "d", "o", "u", "g", "h", " ", "b", "r", "e", "a", "d">>
    [] t = "Seasonal organic fruits" -> <<"S", "e", "a", "s", "o", "n", "a", "l", " ", "o", "r", "g", "a", "n", "i", "c", " ", "f", "r", "u", "i", "t", "s">>
    [] t = "Fresh dairy products" -> <<"F", "r", "e", "s", "h", " ", "d", "a", "i", "r", "y", " ", "p", "r", "o", "d", "u", "c", "t", "s">>
    [] t = "Green Garden Cafe" -> <<"G", "r", "e", "e", "n", " ", "G", "a", "r", "d", "e", "n", " ", "C", "a", "f", "e">>
    [] t = "Bob" -> <<"B", "o", "b">>
    [] t = "Admin User" -> <<"A", "d", "m", "i", "n", " ", "U", "s", "e", "r">>
    [] t = "Gina" -> <<"G", "i", "n", "a">>
    [] t = "PAS" -> <<"P", "A", "S">>
    [] t = "garden" -> <<"g", "a", "r", "d", "e", "n">>
    [] t = "LOAF" -> <<"L", "O", "A", "F">>
    [] t = "tofu" -> <<"t", "o", "f", "u">>
    [] t = "b" -> <<"b">>
    [] OTHER -> <<>>

\* String.prototype.toLowerCase and String.prototype.includes on characters
UpperCase == <<"A", "B", "C", "D", "E", "F", "G", "H", "I", "J", "K", "L", "M", "N", "O", "P", "Q", "R", "S", "T", "U", "V", "W", "X", "Y", "Z">>
LowerCase == <<"a", "b", "c", "d", "e", "f", "g", "h", "i", "j", "k", "l", "m", "n", "o", "p", "q", "r", "s", "t", "u", "v", "w", "x", "y", "z">>
LowerChars(cs) ==
  [i \in 1..Len(cs) |->
     IF \E k \in 1..26 : UpperCase[k] = cs[i]
     THEN LowerCase[CHOOSE k \in 1..26 : UpperCase[k] = cs[i]]
     ELSE cs[i]]
includes(text, term) ==
  \E i \in 0..(Len(text) - Len(term)) : SubSeq(text, i + 1, i + Len(term)) = term

\* generateId(): Date.now() in base 36 followed by a random suffix
generateId(r) == <<now, r>>

\* isExpired(date): expiryDate < now
isExpired(date) == date < now

\* The outcome of the last handler: its name, the success flag and message it
\* resolved, the id it was about and the input it was given
Res(op, ok, msg, id, arg) == [op |-> op, ok |-> ok, msg |-> msg, id |-> id, arg |-> arg]

----------------------------------------------------------------------------
\* JavaScript numbers: IEEE-754 binary64, round to nearest, ties to even

\* A natural number of any size is a sequence of limbs, least significant
\* first, each in 0..Base-1; every intermediate value stays below 2^31
LimbBits == 14
Base == 2^LimbBits

Limb(a, i) == IF i \in 1..Len(a) THEN a[i] ELSE 0

\* Propagates carries (and borrows) through a sequence of limb sums
RECURSIVE Carry(_, _)
Carry(s, c) ==
  IF s = <<>>
  THEN IF c = 0 THEN <<>> ELSE <<c % Base>> \o Carry(<<>>, c \div Base)
  ELSE <<(Head(s) + c) % Base>> \o Carry(Tail(s), (Head(s) + c) \div Base)

BAdd(a, b) ==
  Carry([i \in 1..(IF Len(a) > Len(b) THEN Len(a) ELSE Len(b)) |-> Limb(a, i) + Limb(b, i)], 0)

\* a - b for a >= b
BSub(a, b) == Carry([i \in 1..Len(a) |-> a[i] - Limb(b, i)], 0)

\* a * b for a of at most four limbs
BMul(a, b) ==
  Carry([k \in 1..(Len(a) + Len(b) - 1) |->
           Sum([i \in 1..Len(a) |-> a[i] * Limb(b, k + 1 - i)])], 0)

\* a * 2^s and floor(a / 2^s)
BShl(a, s) ==
  [i \in 1..(s \div LimbBits) |-> 0] \o
  Carry([i \in 1..Len(a) |-> a[i] * 2^(s % LimbBits)], 0)

BShr(a, s) ==
  LET w == s \div LimbBits
      r == s % LimbBits
  IN [i \in 1..(IF Len(a) > w THEN Len(a) - w ELSE 0) |->
        (Limb(a, i + w) \div 2^r) + (Limb(a, i + w + 1) % 2^r) * 2^(LimbBits - r)]

\* Bit i of a (bit 0 is the least significant), and whether bits 0..n-1 are all 0
BBit(a, i) == (Limb(a, i \div LimbBits + 1) \div 2^(i % LimbBits)) % 2
BLowZero(a, n) ==
  /\ \A j \in 1..(n \div LimbBits) : Limb(a, j) = 0
  /\ Limb(a, n \div LimbBits + 1) % 2^(n % LimbBits) = 0

\* Number of bits of a; 0 for zero
BLen(a) ==
  IF \A i \in 1..Len(a) : a[i] = 0 THEN 0
  ELSE LET t == CHOOSE i \in 1..Len(a) : a[i] # 0 /\ \A j \in (i + 1)..Len(a) : a[j] = 0
       IN LimbBits * (t - 1) + (CHOOSE k \in 1..LimbBits : 2^(k - 1) <= a[t] /\ a[t] < 2^k)

\* floor(a / d) for a small divisor d, and whether the division leaves a remainder
RECURSIVE BDivRem(_, _, _)
BDivRem(a, d, rem) ==
  IF a = <<>> THEN <<<<>>, rem>>
  ELSE LET v == rem * Base + a[Len(a)]
           rest == BDivRem(SubSeq(a, 1, Len(a) - 1), d, v % d)
       IN <<Append(rest[1], v \div d), rest[2]>>

\* The value of a natural number that fits an integer of the model
BToInt(a) == Limb(a, 1) + Limb(a, 2) * Base + Limb(a, 3) * Base * Base

\* A number is m * 2^e with m of exactly 53 bits in four limbs, or Zero.
\* The amounts of the shop are far from the limits of the exponent, so
\* overflow, underflow and subnormal numbers do not arise.
Zero == [m |-> <<0, 0, 0, 0>>, e |-> 0]

\* The number nearest to p * 2^e, ties to the even mantissa
RoundToDouble(p, e) ==
  LET n == BLen(p) IN
  IF n = 0 THEN Zero
  ELSE IF n <= 53 THEN
    [m |-> [i \in 1..4 |-> Limb(BShl(p, 53 - n), i)], e |-> e - (53 - n)]
  ELSE
    LET s == n - 53
        q == BShr(p, s)
        up == BBit(p, s - 1) = 1 /\ (~BLowZero(p, s - 1) \/ q[1] % 2 = 1)
        q1 == IF up THEN BAdd(q, <<1>>) ELSE q
    IN IF BLen(q1) = 54
       THEN [m |-> [i \in 1..4 |-> Limb(BShr(q1, 1), i)], e |-> e + s + 1]
       ELSE [m |-> [i \in 1..4 |-> Limb(q1, i)], e |-> e + s]

\* x * y, x + y and x - y (for x >= y) of JavaScript
Times(x, y) ==
  IF x = Zero \/ y = Zero THEN Zero ELSE RoundToDouble(BMul(x.m, y.m), x.e + y.e)

Plus(x, y) ==
  IF x = Zero THEN y
  ELSE IF y = Zero THEN x
  ELSE LET e0 == IF x.e < y.e THEN x.e ELSE y.e
       IN RoundToDouble(BAdd(BShl(x.m, x.e - e0), BShl(y.m, y.e - e0)), e0)

Minus(x, y) ==
  IF y = Zero THEN x
  ELSE LET e0 == IF x.e < y.e THEN x.e ELSE y.e
       IN RoundToDouble(BSub(BShl(x.m, x.e - e0), BShl(y.m, y.e - e0)), e0)

\* An integer below Base as a number
FromInt(n) == RoundToDouble(<<n>>, 0)

\* parseFloat of the decimal text of c hundredths ("7.99" for 799) and the
\* literals 0.08 and 1.08: the number nearest to c / 100.  The quotient is
\* taken with 60 extra bits and a last bit that records a remainder.
parseFloat(c) ==
  LET qr == BDivRem(BShl(<<c>>, 60), 100, 0)
  IN RoundToDouble(BAdd(BShl(qr[1], 1), <<IF qr[2] # 0 THEN 1 ELSE 0>>), -61)

\* Number.prototype.toFixed(2): the integer n for which n / 100 is nearest to
\* x, the larger one on a tie; the text is n with a point before its last
\* two digits
toFixed2(x) ==
  IF x = Zero THEN 0
  ELSE BToInt(BShr(BAdd(BMul(x.m, <<200>>), BShl(<<1>>, -x.e)), 1 - x.e))

\* a <= b for natural numbers
BLeq(a, b) ==
  LET n == IF Len(a) > Len(b) THEN Len(a) ELSE Len(b)
      D == {i \in 1..n : Limb(a, i) # Limb(b, i)}
  IN D = {} \/ LET t == CHOOSE i \in D : \A j \in D : j <= i
               IN Limb(a, t) < Limb(b, t)

\* Long division: n more bits of the quotient, most significant first, with
\* remainder r < d, for d of four limbs.  u is 2 * r - d + Base^4: its fifth
\* limb tells whether 2 * r >= d and its other limbs are then 2 * r - d.
\* (Len(bits) > 0 always holds; it has the bits computed at each step.)
RECURSIVE BDivBits(_, _, _, _)
BDivBits(bits, r, d, n) ==
  IF n = 0 THEN <<bits, r>>
  ELSE LET u == Carry([i \in 1..5 |-> IF i = 5 THEN 1 ELSE 2 * Limb(r, i) - d[i]], 0)
       IN IF Len(bits) > 0 /\ u[5] = 1
          THEN BDivBits(<<1>> \o bits, SubSeq(u, 1, 4), d, n - 1)
          ELSE BDivBits(<<0>> \o bits, Carry([i \in 1..4 |-> 2 * Limb(r, i)], 0), d, n - 1)

\* The natural number with the given bits, least significant first
BFromBits(bits) ==
  [i \in 1..((Len(bits) + LimbBits - 1) \div LimbBits) |->
     Sum([b \in 1..LimbBits |->
            IF LimbBits * (i - 1) + b <= Len(bits)
            THEN bits[LimbBits * (i - 1) + b] * 2^(b - 1) ELSE 0])]

\* x / y for y # 0: the quotient of the mantissas is taken with 56 extra
\* bits and a last bit that records a remainder
Divide(x, y) ==
  IF x = Zero THEN Zero
  ELSE LET q0 == IF BLeq(y.m, x.m) THEN <<1>> ELSE <<0>>
           r0 == IF BLeq(y.m, x.m) THEN BSub(x.m, y.m) ELSE x.m
           d == BDivBits(q0, r0, y.m, 56)
           sticky == IF \A i \in 1..Len(d[2]) : d[2][i] = 0 THEN 0 ELSE 1
       IN RoundToDouble(BFromBits(<<sticky>> \o d[1]), x.e - y.e - 57)

\* x < y for numbers that are not negative
Less(x, y) ==
  IF y = Zero THEN FALSE
  ELSE IF x = Zero THEN TRUE
  ELSE x.e < y.e \/ (x.e = y.e /\ x.m # y.m /\ BLeq(x.m, y.m))

\* Math.floor in the place of Math.round
MathRound_Floor(x) ==
  IF x = Zero THEN 0 ELSE BToInt(BShr(x.m, -x.e))

\* Math.round for a number that is not negative and below 2^52:
\* floor(x + 1/2), taken exactly
MathRound(x) ==
  IF x = Zero THEN 0
  ELSE BToInt(BShr(BAdd(x.m, BShl(<<1>>, -x.e - 1)), -x.e))

\* calculateDiscount of utils.js for prices in hundredths, original >= discounted
calculateDiscount(originalPrice, discountedPrice) ==
  MathRound(Times(Divide(Minus(parseFloat(originalPrice), parseFloat(discountedPrice)),
                         parseFloat(originalPrice)),
                  FromInt(100)))

----------------------------------------------------------------------------
\* Initial state: a store persisted by earlier visits

AdminId == <<-3, 0>>
GreenId == <<-2, 0>>
BakeryId == <<-2, 1>>
CustId == <<-1, 0>>

User(id, name, email, role, businessName) ==
  [id |-> id, name |-> name, email |-> email, role |-> role,
   password |-> "pw", status |-> "active", businessName |-> businessName,
   updatedAt |-> <<>>]

InitUsers ==
  << User(AdminId, "Admin User", "admin@savebite.com", "admin", ""),
     User(GreenId, "Gina", "green@x.com", "business", "Green Garden Cafe"),
     User(BakeryId, "Bob", "bakery@x.com", "business", ""),
     User(CustId, "Carol", "Cust@x.com", "customer", "") >>

InitListings ==
  << [id |-> <<-1, 1>>, businessId |-> GreenId, businessName |-> "Green Garden Cafe",
      foodName |-> "Pasta", category |-> "meals", description |-> "Fresh pasta",
      originalPrice |-> 1299, discountedPrice |-> 799, quantity |-> 2,
      expiryDate |-> 1, createdAt |-> -1, updatedAt |-> <<>>, status |-> "active"],
     [id |-> <<-1, 2>>, businessId |-> BakeryId, businessName |-> "Bob",
      foodName |-> "Bread", category |-> "bakery", description |-> "Rye loaf",
      originalPrice |-> 599, discountedPrice |-> 299, quantity |-> 1,
      expiryDate |-> 3, createdAt |-> -1, updatedAt |-> <<>>, status |-> "active"] >>

\* The six listings of createMockListings
MockPrices ==
  << <<1299, 799>>, <<999, 599>>, <<1899, 1199>>, <<799, 499>>, <<1599, 999>>, <<2299, 1299>> >>
MockQuantities == <<5, 3, 4, 6, 8, 3>>
MockNames ==
  << "Vegetable Pasta Salad", "Avocado Sandwich", "Assorted Pastry Box",
     "Artisan Bread Loaf", "Organic Fruit Box", "Fresh Dairy Bundle" >>
MockDescriptions ==
  << "Fresh pasta salad", "Whole grain bread", "Daily fresh pastries",
     "Artisan sourdough bread", "Seasonal organic fruits", "Fresh dairy products" >>
MockListings ==
  [k \in 1..6 |->
     [id |-> <<-1, k>>,
      businessId |-> IF k <= 2 THEN GreenId ELSE BakeryId,
      businessName |-> IF k <= 2 THEN "Green Garden Cafe" ELSE "Bob",
      foodName |-> MockNames[k],
      description |-> MockDescriptions[k],
      category |-> IF k <= 2 THEN "meals" ELSE "bakery",
      originalPrice |-> MockPrices[k][1], discountedPrice |-> MockPrices[k][2],
      quantity |-> MockQuantities[k],
      expiryDate |-> 1, createdAt |-> -1, updatedAt |-> <<>>, status |-> "active"]]

CustSession ==
  [userId |-> CustId, userEmail |-> "Cust@x.com", userName |-> "Carol",
   userRole |-> "customer", createdAt |-> 0, expiresAt |-> SessionDays]

Init ==
  /\ users = InitUsers
  /\ session = <<CustSession>>
  /\ listings = InitListings
  /\ cart = <<>>
  /\ orders = <<>>
  /\ now = 0
  /\ timers = <<>>
  /\ view = <<>>
  /\ result = Res("init", TRUE, "", <<>>, <<>>)

Patch ==
  [foodName |-> "Pasta", category |-> "meals", description |-> "Fresh pasta",
   originalPrice |-> 599, discountedPrice |-> 299, quantity |-> 1,
   expiryDate |-> now + 1]

Statuses == {"completed", "cancelled"}

\* What the profile form sends: a new name; the role field is what a forged
\* request could add
ProfileData == {[name |-> "Caz", email |-> "Cust@x.com", role |-> <<"admin">>]}

----------------------------------------------------------------------------
\* AuthService

\* new Session(userId, userEmail, userName, userRole)
NewSession(u) ==
  [userId |-> u.id, userEmail |-> u.email, userName |-> u.name,
   userRole |-> u.role, createdAt |-> now, expiresAt |-> now + SessionDays]

\* getSession that never finds the session expired
getSession_NoExpiry == session

\* getSession(): an expired session is removed by the read (logout)
getSession ==
  IF session = <<>> THEN <<>>
  ELSE IF session[1].expiresAt <= now THEN <<>>
  ELSE session

\* getCurrentUser(): the first user whose id is the session's userId
getCurrentUser ==
  IF getSession = <<>> THEN <<>>
  ELSE LET i == IndexOfId(users, getSession[1].userId)
       IN IF i = 0 THEN <<>> ELSE <<users[i]>>

\* A call of getCurrentUser() by a page: the read removes an expired session;
\* result.msg is what the call returns, result.arg the session it found stored
GetCurrentUser ==
  /\ session' = getSession
  /\ result' = Res("getCurrentUser", TRUE, getCurrentUser, <<>>, session)
  /\ UNCHANGED <<users, listings, cart, orders, now, timers, view>>

\* users.find(user => user.email.toLowerCase() === email.toLowerCase())
UserByEmail(email) ==
  IF \E i \in 1..Len(users) : toLowerCase(users[i].email) = toLowerCase(email)
  THEN <<users[CHOOSE i \in 1..Len(users) :
            /\ toLowerCase(users[i].email) = toLowerCase(email)
            /\ \A j \in 1..(i - 1) : toLowerCase(users[j].email) # toLowerCase(email)]>>
  ELSE <<>>

\* What is typed into the login form
Credentials ==
  { <<"admin@savebite.com", "pw">>, <<"green@x.com", "pw">>, <<"bakery@x.com", "pw">>,
    <<"CUST@x.com", "pw">>, <<"CUST@x.com", "bad">>, <<"", "pw">> }
StoreCredentials == { <<"green@x.com", "pw">>, <<"CUST@x.com", "pw">> }
BusinessCredentials == { <<"green@x.com", "pw">> }

\* Login without the test of the status
Login_BlockedAllowed(email, password) ==
  LET found == UserByEmail(email) IN
  /\ IF email = "" \/ password = "" THEN
       /\ result' = Res("login", FALSE, "required", <<>>, <<>>)
       /\ UNCHANGED session
     ELSE IF found = <<>> \/ found[1].password # password THEN
       /\ result' = Res("login", FALSE, "invalid", <<>>, <<>>)
       /\ UNCHANGED session
     ELSE
       /\ session' = <<NewSession(found[1])>>
       /\ result' = Res("login", TRUE, "", found[1].id, <<>>)
  /\ UNCHANGED <<users, listings, cart, orders, now, timers, view>>

Login(email, password) ==
  LET found == UserByEmail(email) IN
  /\ IF email = "" \/ password = "" THEN
       /\ result' = Res("login", FALSE, "required", <<>>, <<>>)
       /\ UNCHANGED session
     ELSE IF found = <<>> \/ found[1].password # password THEN
       /\ result' = Res("login", FALSE, "invalid", <<>>, <<>>)
       /\ UNCHANGED session
     ELSE IF found[1].status = "blocked" THEN
       /\ result' = Res("login", FALSE, "blocked", found[1].id, <<>>)
       /\ UNCHANGED session
     ELSE
       /\ session' = <<NewSession(found[1])>>
       /\ result' = Res("login", TRUE, "", found[1].id, <<>>)
  /\ UNCHANGED <<users, listings, cart, orders, now, timers, view>>

\* What is typed into the registration form: name, email, password, role
RegisterData(name, email, password, role) ==
  [name |-> name, email |-> email, password |-> password, role |-> role]

\* register(userData): a new user, logged in at once
register(userData, r) ==
  LET newUser == [User(generateId(r), userData.name, userData.email, userData.role, "")
                    EXCEPT !.password = userData.password] IN
  /\ IF userData.name = "" \/ userData.email = "" \/ userData.password = "" \/ userData.role = "" THEN
       /\ result' = Res("register", FALSE, "required", <<>>, userData)
       /\ UNCHANGED <<users, session>>
     ELSE IF UserByEmail(userData.email) # <<>> THEN
       /\ result' = Res("register", FALSE, "registered", <<>>, userData)
       /\ UNCHANGED <<users, session>>
     ELSE
       /\ users' = Append(users, newUser)
       /\ session' = <<NewSession(newUser)>>
       /\ result' = Res("register", TRUE, "", newUser.id, userData)
  /\ UNCHANGED <<listings, cart, orders, now, timers, view>>

\* Logout that empties the cart of the user who leaves
Logout_ClearsCart ==
  /\ session' = <<>>
  /\ cart' = <<>>
  /\ result' = Res("logout", TRUE, "", <<>>, <<>>)
  /\ UNCHANGED <<users, listings, orders, now, timers, view>>

\* logout(): removes the session
Logout ==
  /\ session' = <<>>
  /\ result' = Res("logout", TRUE, "", <<>>, <<>>)
  /\ UNCHANGED <<users, listings, cart, orders, now, timers, view>>

\* Time passes: new Date() returns a later day
Tick ==
  /\ now < MaxTime
  /\ now' = now + 1
  /\ UNCHANGED <<users, session, listings, cart, orders, timers, view, result>>

----------------------------------------------------------------------------
\* ApiService: listings

Unauthorized ==
  \/ getCurrentUser = <<>>
  \/ getCurrentUser[1].role \notin {"business", "admin"}

\* The listingData that ListingService.submitListingForm passes on: all
\* fields present, discountedPrice < originalPrice, expiryDate in the future
Prices == {<<1299, 799>>, <<599, 299>>}
ListingData ==
  {[foodName |-> "Pasta", category |-> c, description |-> "Fresh pasta",
    originalPrice |-> p[1], discountedPrice |-> p[2], quantity |-> q,
    expiryDate |-> e] :
      c \in {"meals"}, p \in Prices, q \in {2}, e \in {now + 1}}

NewListing(u, data, r) ==
  [id |-> generateId(r),
   businessId |-> u.id,
   businessName |-> IF u.businessName # "" THEN u.businessName ELSE u.name,
   foodName |-> data.foodName,
   category |-> data.category,
   description |-> data.description,
   originalPrice |-> data.originalPrice,
   discountedPrice |-> data.discountedPrice,
   quantity |-> data.quantity,
   expiryDate |-> data.expiryDate,
   createdAt |-> now,
   updatedAt |-> <<>>,
   status |-> "active"]

createListing(data, r) ==
  /\ Len(listings) < MaxListings
  /\ session' = getSession
  /\ IF Unauthorized THEN
       /\ result' = Res("createListing", FALSE, "unauthorized", <<>>, data)
       /\ UNCHANGED listings
     ELSE
       /\ listings' = Append(listings, NewListing(getCurrentUser[1], data, r))
       /\ result' = Res("createListing", TRUE, "", generateId(r), data)
  /\ UNCHANGED <<users, cart, orders, now, timers, view>>

\* ApiService.getListingById(id): listings.find(listing => listing.id === id)
getListingById(id) ==
  LET k == IndexOfId(listings, id) IN
  IF k = 0 THEN <<>> ELSE <<listings[k]>>

\* { ...listing, ...listingData, updatedAt }
MergeListing(l, data) ==
  [l EXCEPT !.foodName = data.foodName,
            !.category = data.category,
            !.description = data.description,
            !.originalPrice = data.originalPrice,
            !.discountedPrice = data.discountedPrice,
            !.quantity = data.quantity,
            !.expiryDate = data.expiryDate,
            !.updatedAt = <<now>>]

\* NotOwner that lets every business through
NotOwner_Open(u, l) == FALSE

\* The owner check of updateListing and deleteListing
NotOwner(u, l) == u.role # "admin" /\ l.businessId # u.id

updateListing(id, data) ==
  LET i == IndexOfId(listings, id) IN
  /\ session' = getSession
  /\ IF Unauthorized THEN
       /\ result' = Res("updateListing", FALSE, "unauthorized", id, data)
       /\ UNCHANGED listings
     ELSE IF i = 0 THEN
       /\ result' = Res("updateListing", FALSE, "notfound", id, data)
       /\ UNCHANGED listings
     ELSE IF NotOwner(getCurrentUser[1], listings[i]) THEN
       /\ result' = Res("updateListing", FALSE, "notowner", id, data)
       /\ UNCHANGED listings
     ELSE
       /\ listings' = [listings EXCEPT ![i] = MergeListing(listings[i], data)]
       /\ result' = Res("updateListing", TRUE, "", id, data)
  /\ UNCHANGED <<users, cart, orders, now, timers, view>>

deleteListing(id) ==
  LET i == IndexOfId(listings, id) IN
  /\ session' = getSession
  /\ IF Unauthorized THEN
       /\ result' = Res("deleteListing", FALSE, "unauthorized", id, <<>>)
       /\ UNCHANGED listings
     ELSE IF i = 0 THEN
       /\ result' = Res("deleteListing", FALSE, "notfound", id, <<>>)
       /\ UNCHANGED listings
     ELSE IF NotOwner(getCurrentUser[1], listings[i]) THEN
       /\ result' = Res("deleteListing", FALSE, "notowner", id, <<>>)
       /\ UNCHANGED listings
     ELSE
       /\ listings' = RemoveAt(listings, i)
       /\ result' = Res("deleteListing", TRUE, "", id, <<>>)
  /\ UNCHANGED <<users, cart, orders, now, timers, view>>

\* ExpireListing that never flips a status
ExpireListing_Never(l) == l

\* ExpireListing without the test of the status
ExpireListing_AnyStatus(l) ==
  IF isExpired(l.expiryDate) THEN [l EXCEPT !.status = "expired"] ELSE l

\* The status flip that getListings persists before it filters
ExpireListing(l) ==
  IF isExpired(l.expiryDate) /\ l.status = "active"
  THEN [l EXCEPT !.status = "expired"] ELSE l

\* The filters argument of getListings; an absent (or falsy) field is <<>>
\* for businessId, "" for status, category, search and sortBy, 0 for limit
Filters(businessId, status, category, search, sortBy, limit) ==
  [businessId |-> businessId, status |-> status, category |-> category,
   search |-> search, sortBy |-> sortBy, limit |-> limit]

NoFilters == Filters(<<>>, "", "", "", "", 0)

\* Matches with the search term compared as typed
Matches_CaseSensitive(l, filters) ==
  /\ filters.businessId # <<>> => l.businessId = filters.businessId[1]
  /\ filters.status # "" => l.status = filters.status
  /\ (filters.category # "" /\ filters.category # "all") => l.category = filters.category
  /\ filters.search # "" =>
       LET searchTerm == Chars(filters.search) IN
       \/ includes(Chars(l.foodName), searchTerm)
       \/ includes(Chars(l.description), searchTerm)
       \/ includes(Chars(l.businessName), searchTerm)

\* The tests of the four listings.filter calls
Matches(l, filters) ==
  /\ filters.businessId # <<>> => l.businessId = filters.businessId[1]
  /\ filters.status # "" => l.status = filters.status
  /\ (filters.category # "" /\ filters.category # "all") => l.category = filters.category
  /\ filters.search # "" =>
       LET searchTerm == LowerChars(Chars(filters.search)) IN
       \/ includes(LowerChars(Chars(l.foodName)), searchTerm)
       \/ includes(LowerChars(Chars(l.description)), searchTerm)
       \/ includes(LowerChars(Chars(l.businessName)), searchTerm)

\* (originalPrice - discountedPrice) / originalPrice of the discount sort
DiscountRatio(l) ==
  Divide(Minus(parseFloat(l.originalPrice), parseFloat(l.discountedPrice)),
         parseFloat(l.originalPrice))

\* Whether the compare function of listings.sort returns a negative number
\* for (a, b), so that a is placed before b
SortBefore(sortBy, a, b) ==
  CASE sortBy = "expiry" -> a.expiryDate < b.expiryDate
    [] sortBy = "price-asc" -> Less(parseFloat(a.discountedPrice), parseFloat(b.discountedPrice))
    [] sortBy = "price-desc" -> Less(parseFloat(b.discountedPrice), parseFloat(a.discountedPrice))
    [] sortBy = "discount" -> Less(DiscountRatio(b), DiscountRatio(a))
    [] OTHER -> FALSE

\* Array.prototype.sort is stable: an element goes before the first element
\* of the sorted part that the compare function places after it.  (Here and
\* below a value that is used several times is bound by a one-element set,
\* so that it is computed once.)
Insert(sortBy, s, x) ==
  CHOOSE r \in
    { LET k == IF after = {} THEN Len(s) + 1
               ELSE CHOOSE i \in after : \A j \in after : i <= j
      IN SubSeq(s, 1, k - 1) \o <<x>> \o SubSeq(s, k, Len(s)) :
      after \in {{i \in 1..Len(s) : SortBefore(sortBy, x, s[i])}} } : TRUE

RECURSIVE Sort(_, _)
Sort(sortBy, s) ==
  IF s = <<>> THEN <<>>
  ELSE CHOOSE r \in {Insert(sortBy, t, s[Len(s)]) :
                       t \in {Sort(sortBy, SubSeq(s, 1, Len(s) - 1))}} : TRUE

\* listings.slice(0, limit) when a limit is given and exceeded
Limit(limit, s) ==
  IF limit # 0 /\ Len(s) > limit THEN SubSeq(s, 1, limit) ELSE s

\* What getListings resolves for the stored listings ls
Select(ls, filters) ==
  CHOOSE r \in {Limit(filters.limit, sorted) :
                  sorted \in {Sort(filters.sortBy, matching) :
                                matching \in {SelectSeq(ls, LAMBDA l : Matches(l, filters))}}} : TRUE

\* getListings(filters): the flip is saved, then the stored listings are
\* filtered, sorted and cut; result.msg is the array that is resolved
getListings(filters) ==
  LET flipped == [i \in 1..Len(listings) |-> ExpireListing(listings[i])] IN
  /\ listings' = flipped
  /\ result' = Res("getListings", TRUE, Select(flipped, filters), <<>>, filters)
  /\ UNCHANGED <<users, session, cart, orders, now, timers, view>>

\* ListingService.renderListings(container, {filters}): the listings that
\* getListings resolves are drawn as cards, the ones that are not active
\* skipped; a card shows both prices and the discount percentage
Card(l) ==
  [id |-> l.id, originalPrice |-> l.originalPrice, discountedPrice |-> l.discountedPrice,
   discountPercentage |-> calculateDiscount(l.originalPrice, l.discountedPrice)]

renderListings(filters) ==
  \E flipped \in {[i \in 1..Len(listings) |-> ExpireListing(listings[i])]} :
    \E resolved \in {Select(flipped, filters)} :
      \E shown \in {SelectSeq(resolved, LAMBDA l : l.status = "active")} :
        /\ listings' = flipped
        /\ view' = <<[k \in 1..Len(shown) |-> Card(shown[k])]>>
        /\ result' = Res("renderListings", TRUE, resolved, <<>>, filters)
        /\ UNCHANGED <<users, session, cart, orders, now, timers>>

----------------------------------------------------------------------------
\* Timers: every ApiService method does its work in a setTimeout callback

Timer(op, delay, arg) == [op |-> op, delay |-> delay, arg |-> arg]

\* A callback runs before the callbacks that were scheduled earlier only if
\* its delay is shorter than theirs
CanFire(i, op) ==
  /\ i \in 1..Len(timers)
  /\ timers[i].op = op
  /\ \A j \in 1..(i - 1) : timers[j].delay > timers[i].delay

Schedule(t) == timers' = Append(timers, t)
\* Fired that drops the callbacks that were still pending
Fired_DropPending(i) == <<>>

Fired(i) == RemoveAt(timers, i)

----------------------------------------------------------------------------
\* ListingService.addToCart and ApiService: cart

ClickAddToCart(listingId, quantity) ==
  /\ session' = getSession
  /\ IF getCurrentUser = <<>> THEN
       /\ result' = Res("ListingService.addToCart", FALSE, "login", listingId, <<>>)
       /\ UNCHANGED timers
     ELSE IF getCurrentUser[1].role # "customer" THEN
       /\ result' = Res("ListingService.addToCart", FALSE, "role", listingId, <<>>)
       /\ UNCHANGED timers
     ELSE
       /\ Schedule(Timer("getListingById", 200, [id |-> listingId, quantity |-> quantity]))
       /\ result' = Res("ListingService.addToCart", TRUE, "lookup", listingId, <<>>)
  /\ UNCHANGED <<users, listings, cart, orders, now, view>>

CartItem(listing, quantity) ==
  [id |-> listing.id,
   businessId |-> listing.businessId,
   businessName |-> listing.businessName,
   name |-> listing.foodName,
   originalPrice |-> listing.originalPrice,
   discountedPrice |-> listing.discountedPrice,
   quantity |-> quantity,
   expiryDate |-> listing.expiryDate]

\* getListingById resolves and ListingService.addToCart continues
FireGetListingById(i) ==
  LET a == timers[i].arg
      k == IndexOfId(listings, a.id)
      q == IF a.quantity > listings[k].quantity THEN listings[k].quantity ELSE a.quantity
  IN
  /\ CanFire(i, "getListingById")
  /\ IF k = 0 THEN
       /\ result' = Res("ListingService.addToCart", FALSE, "notfound", a.id, <<>>)
       /\ timers' = Fired(i)
     ELSE IF isExpired(listings[k].expiryDate) THEN
       /\ result' = Res("ListingService.addToCart", FALSE, "expired", a.id, <<>>)
       /\ timers' = Fired(i)
     ELSE IF listings[k].quantity <= 0 THEN
       /\ result' = Res("ListingService.addToCart", FALSE, "outofstock", a.id, <<>>)
       /\ timers' = Fired(i)
     ELSE
       /\ result' = Res("ListingService.addToCart", TRUE, "add", a.id, <<>>)
       /\ timers' = Append(Fired(i), Timer("addToCart", 200, CartItem(listings[k], q)))
  /\ UNCHANGED <<users, session, listings, cart, orders, now, view>>

\* AddItem that appends the item whether or not its id is in the cart
AddItem_Append(items, item) == Append(items, item)

\* ApiService.addToCart(item)
AddItem(items, item) ==
  LET k == IndexOfId(items, item.id) IN
  IF k # 0
  THEN [items EXCEPT ![k].quantity = items[k].quantity + item.quantity]
  ELSE Append(items, item)

FireAddToCart(i) ==
  /\ CanFire(i, "addToCart")
  /\ \A k \in 1..Len(AddItem(cart, timers[i].arg)) :
        AddItem(cart, timers[i].arg)[k].quantity <= MaxCartQty
  /\ cart' = AddItem(cart, timers[i].arg)
  /\ timers' = Fired(i)
  /\ result' = Res("addToCart", TRUE, "", timers[i].arg.id, <<>>)
  /\ UNCHANGED <<users, session, listings, orders, now, view>>

\* ApiService.updateCartItemQuantity(itemId, quantity)
SetQuantity(items, itemId, quantity) ==
  LET k == IndexOfId(items, itemId) IN
  IF k = 0 THEN items
  ELSE IF quantity <= 0 THEN RemoveAt(items, k)
  ELSE [items EXCEPT ![k].quantity = quantity]

\* ApiService.removeFromCart(itemId)
RemoveItem(items, itemId) == SelectSeq(items, LAMBDA it : it.id # itemId)

\* The handlers of the cart page call renderCart() once the update resolved
FireUpdateCartItemQuantity(i) ==
  /\ CanFire(i, "updateCartItemQuantity")
  /\ cart' = SetQuantity(cart, timers[i].arg.id, timers[i].arg.quantity)
  /\ timers' = Append(Fired(i), Timer("getCart", 100, <<>>))
  /\ result' = Res("updateCartItemQuantity", TRUE, "", timers[i].arg.id, <<>>)
  /\ UNCHANGED <<users, session, listings, orders, now, view>>

FireRemoveFromCart(i) ==
  /\ CanFire(i, "removeFromCart")
  /\ cart' = RemoveItem(cart, timers[i].arg.id)
  /\ timers' = Append(Fired(i), Timer("getCart", 100, <<>>))
  /\ result' = Res("removeFromCart", TRUE, "", timers[i].arg.id, <<>>)
  /\ UNCHANGED <<users, session, listings, orders, now, view>>

----------------------------------------------------------------------------
\* CartService: the cart page

\* cart.html is protected for customers; on load it calls renderCart()
OpenCartPage ==
  /\ view = <<>>
  /\ session' = getSession
  /\ IF getSession = <<>> \/ getSession[1].userRole # "customer" THEN
       /\ result' = Res("openCart", FALSE, "redirect", <<>>, <<>>)
       /\ UNCHANGED timers
     ELSE
       /\ Schedule(Timer("getCart", 100, <<>>))
       /\ result' = Res("openCart", TRUE, "", <<>>, <<>>)
  /\ UNCHANGED <<users, listings, cart, orders, now, view>>

\* What renderCart writes into the DOM: one row per item, with its quantity
Rendered(items) == [k \in 1..Len(items) |-> [id |-> items[k].id, quantity |-> items[k].quantity]]

\* getCart resolves and renderCart continues
FireGetCart(i) ==
  /\ CanFire(i, "getCart")
  /\ view' = <<Rendered(cart)>>
  /\ timers' = Fired(i)
  /\ result' = Res("renderCart", TRUE, "", <<>>, <<>>)
  /\ UNCHANGED <<users, session, listings, cart, orders, now>>

Rows == IF view = <<>> THEN <<>> ELSE view[1]

ClickPlus(k) ==
  /\ k \in 1..Len(Rows)
  /\ Rows[k].quantity + 1 <= MaxCartQty
  /\ Schedule(Timer("updateCartItemQuantity", 200,
                    [id |-> Rows[k].id, quantity |-> Rows[k].quantity + 1]))
  /\ result' = Res("plus", TRUE, "", Rows[k].id, <<>>)
  /\ UNCHANGED <<users, session, listings, cart, orders, now, view>>

ClickMinus(k) ==
  /\ k \in 1..Len(Rows)
  /\ IF Rows[k].quantity > 1
     THEN Schedule(Timer("updateCartItemQuantity", 200,
                         [id |-> Rows[k].id, quantity |-> Rows[k].quantity - 1]))
     ELSE Schedule(Timer("removeFromCart", 200, [id |-> Rows[k].id]))
  /\ result' = Res("minus", TRUE, "", Rows[k].id, <<>>)
  /\ UNCHANGED <<users, session, listings, cart, orders, now, view>>

ClickRemove(k) ==
  /\ k \in 1..Len(Rows)
  /\ Schedule(Timer("removeFromCart", 200, [id |-> Rows[k].id]))
  /\ result' = Res("remove", TRUE, "", Rows[k].id, <<>>)
  /\ UNCHANGED <<users, session, listings, cart, orders, now, view>>

----------------------------------------------------------------------------
\* Checkout: CartService.submitCheckoutForm and ApiService.createOrder

\* The fields of the checkout form; pickupTime is <<>> when the input is empty
CheckoutForm(selected, name, email, phone, pickupTime) ==
  [pickupSelected |-> selected, customerName |-> name, customerEmail |-> email,
   customerPhone |-> phone, pickupTime |-> pickupTime]

CheckoutForms ==
  { CheckoutForm(TRUE, "Carol", "c@x.com", "555", <<now + 1>>),
    CheckoutForm(FALSE, "Carol", "c@x.com", "555", <<now + 1>>),
    CheckoutForm(TRUE, "", "c@x.com", "555", <<now + 1>>),
    CheckoutForm(TRUE, "Carol", "", "555", <<now + 1>>),
    CheckoutForm(TRUE, "Carol", "c@x.com", "", <<now + 1>>),
    CheckoutForm(TRUE, "Carol", "c@x.com", "555", <<>>),
    CheckoutForm(TRUE, "Carol", "c@x.com", "555", <<now>>) }

OrderData(form) ==
  [customerName |-> form.customerName, customerEmail |-> form.customerEmail,
   customerPhone |-> form.customerPhone, pickupTime |-> form.pickupTime[1]]

\* FormError that accepts a pickup time equal to the current time
FormError_NowAccepted(form) ==
  IF ~form.pickupSelected THEN "pickup"
  ELSE IF form.pickupTime = <<>> THEN "error"
  ELSE IF form.customerName = "" \/ form.customerEmail = "" \/ form.customerPhone = ""
    THEN "required"
  ELSE IF form.pickupTime[1] < now THEN "pickupTime"
  ELSE ""

\* The checks of submitCheckoutForm, in the order of the code; "" when the
\* form passes them
FormError(form) ==
  IF ~form.pickupSelected THEN "pickup"
  \* new Date("").toISOString() throws; the handler catches it
  ELSE IF form.pickupTime = <<>> THEN "error"
  ELSE IF form.customerName = "" \/ form.customerEmail = "" \/ form.customerPhone = ""
    THEN "required"
  ELSE IF form.pickupTime[1] <= now THEN "pickupTime"
  ELSE ""

SubmitCheckoutForm(form) ==
  /\ IF FormError(form) # "" THEN
       /\ result' = Res("submitCheckoutForm", FALSE, FormError(form), <<>>, form)
       /\ UNCHANGED timers
     ELSE
       /\ Schedule(Timer("createOrder", 500, OrderData(form)))
       /\ result' = Res("submitCheckoutForm", TRUE, "", <<>>, form)
  /\ UNCHANGED <<users, session, listings, cart, orders, now, view>>

\* reduce((total, x) => total + x, 0) over numbers
RECURSIVE SumD(_, _)
SumD(total, s) == IF s = <<>> THEN total ELSE SumD(Plus(total, Head(s)), Tail(s))

\* item.discountedPrice * item.quantity as JavaScript computes it
ItemAmount(item) == Times(parseFloat(item.discountedPrice), FromInt(item.quantity))

\* (item.originalPrice - item.discountedPrice) * item.quantity
ItemSaved(item) ==
  Times(Minus(parseFloat(item.originalPrice), parseFloat(item.discountedPrice)),
        FromInt(item.quantity))

\* orderTotal with the tax left out of the factor
orderTotal_NoTax(items) ==
  SumD(Zero, [n \in 1..Len(items) |-> Times(ItemAmount(items[n]), parseFloat(100))])

\* The four reduce calls of createOrder
orderSubtotal(items) == SumD(Zero, [n \in 1..Len(items) |-> ItemAmount(items[n])])
orderSavings(items) == SumD(Zero, [n \in 1..Len(items) |-> ItemSaved(items[n])])
orderTax(items) ==
  SumD(Zero, [n \in 1..Len(items) |-> Times(ItemAmount(items[n]), parseFloat(TaxRate))])
orderTotal(items) ==
  SumD(Zero, [n \in 1..Len(items) |-> Times(ItemAmount(items[n]), parseFloat(100 + TaxRate))])

\* The summary of renderCart: subtotal and savings accumulated over the
\* items, then tax = subtotal * 0.08 and total = subtotal + tax
CartTotals(items) ==
  LET subtotal == SumD(Zero, [n \in 1..Len(items) |-> ItemAmount(items[n])])
      savings == SumD(Zero, [n \in 1..Len(items) |-> ItemSaved(items[n])])
      tax == Times(subtotal, parseFloat(TaxRate))
  IN [subtotal |-> subtotal, savings |-> savings, tax |-> tax, total |-> Plus(subtotal, tax)]

NewOrder(u, items, orderData, r) ==
  [id |-> generateId(r),
   userId |-> u.id,
   userName |-> u.name,
   userEmail |-> u.email,
   items |-> items,
   customerName |-> orderData.customerName,
   customerEmail |-> orderData.customerEmail,
   customerPhone |-> orderData.customerPhone,
   pickupTime |-> orderData.pickupTime,
   subtotal |-> orderSubtotal(items),
   savings |-> orderSavings(items),
   tax |-> orderTax(items),
   total |-> orderTotal(items),
   status |-> "pending",
   createdAt |-> now,
   updatedAt |-> <<>>]

\* DecrementListing with the purchased quantity ignored: one unit per item
DecrementListing_One(ls, item) ==
  LET k == IndexOfId(ls, item.id) IN
  IF k = 0 THEN ls
  ELSE LET q == ls[k].quantity - 1 IN
       [ls EXCEPT ![k].quantity = q,
                  ![k].status = IF q <= 0 THEN "sold-out" ELSE ls[k].status]

\* DecrementListing that subtracts from the quantity the listing had when the
\* store was loaded instead of the quantity persisted by the previous order
DecrementListing_Stale(ls, item) ==
  LET k == IndexOfId(ls, item.id)
      k0 == IndexOfId(InitListings, item.id) IN
  IF k = 0 THEN ls
  ELSE LET q == (IF k0 = 0 THEN ls[k].quantity ELSE InitListings[k0].quantity) - item.quantity IN
       [ls EXCEPT ![k].quantity = q,
                  ![k].status = IF q <= 0 THEN "sold-out" ELSE ls[k].status]

\* One step of the forEach that updates the listings of an order
DecrementListing(ls, item) ==
  LET k == IndexOfId(ls, item.id) IN
  IF k = 0 THEN ls
  ELSE LET q == ls[k].quantity - item.quantity IN
       [ls EXCEPT ![k].quantity = q,
                  ![k].status = IF q <= 0 THEN "sold-out" ELSE ls[k].status]

RECURSIVE DecrementListings(_, _)
DecrementListings(ls, items) ==
  IF items = <<>> THEN ls
  ELSE DecrementListings(DecrementListing(ls, Head(items)), Tail(items))

\* CreateOrderError with the check of the cart left out
CreateOrderError_NoCartCheck ==
  IF getCurrentUser = <<>> THEN "unauthorized" ELSE ""

\* The checks that createOrder makes before it builds the order: a current
\* user, then a cart with at least one item; "" when both pass
CreateOrderError ==
  IF getCurrentUser = <<>> THEN "unauthorized"
  ELSE IF Len(cart) = 0 THEN "empty"
  ELSE ""

\* ApiService.createOrder(orderData); on success the page shows the
\* confirmation, which calls renderCart()
FireCreateOrder(i, r) ==
  /\ CanFire(i, "createOrder")
  /\ session' = getSession
  /\ IF CreateOrderError # "" THEN
       /\ result' = Res("createOrder", FALSE, CreateOrderError, <<>>, <<>>)
       /\ timers' = Fired(i)
       /\ UNCHANGED <<orders, listings, cart>>
     ELSE
       /\ orders' = Append(orders, NewOrder(getCurrentUser[1], cart, timers[i].arg, r))
       /\ listings' = DecrementListings(listings, cart)
       /\ cart' = <<>>
       /\ timers' = Append(Fired(i), Timer("getCart", 100, <<>>))
       /\ result' = Res("createOrder", TRUE, "", generateId(r), <<>>)
  /\ UNCHANGED <<users, now, view>>

\* SetOrderStatus that also stamps the order with the name of the caller
SetOrderStatus_Stamp(o, status) ==
  [o EXCEPT !.status = status, !.updatedAt = <<now>>, !.userName = getCurrentUser[1].name]

\* order.status = status; order.updatedAt = new Date().toISOString()
SetOrderStatus(o, status) ==
  [o EXCEPT !.status = status, !.updatedAt = <<now>>]

\* OwnsItem that takes every business user for an owner of the order
OwnsItem_Any(o, u) == TRUE

\* order.items.some((item) => item.businessId === currentUser.id)
OwnsItem(o, u) == \E n \in 1..Len(o.items) : o.items[n].businessId = u.id

\* The message updateOrderStatus resolves with when it fails, "" when it
\* goes on to change the order
UpdateOrderStatusError(id) ==
  IF Unauthorized THEN "unauthorized"
  ELSE IF IndexOfId(orders, id) = 0 THEN "notfound"
  ELSE IF /\ getCurrentUser[1].role = "business"
          /\ ~OwnsItem(orders[IndexOfId(orders, id)], getCurrentUser[1]) THEN "notowner"
  ELSE ""

\* ApiService.updateOrderStatus(id, status)
updateOrderStatus(id, status) ==
  LET k == IndexOfId(orders, id) IN
  /\ session' = getSession
  /\ IF UpdateOrderStatusError(id) # "" THEN
       /\ result' = Res("updateOrderStatus", FALSE, UpdateOrderStatusError(id), id, <<>>)
       /\ UNCHANGED orders
     ELSE
       /\ orders' = [orders EXCEPT ![k] = SetOrderStatus(orders[k], status)]
       /\ result' = Res("updateOrderStatus", TRUE, "", id, <<>>)
  /\ UNCHANGED <<users, listings, cart, now, timers, view>>

----------------------------------------------------------------------------
\* Business dashboard, orders tab

\* orders.sort((a, b) => new Date(b.createdAt) - new Date(a.createdAt)):
\* a stable sort, the newest order first
RECURSIVE NewestFirst(_)
NewestFirst(os) ==
  IF os = <<>> THEN <<>>
  ELSE LET rest == NewestFirst(Tail(os))
           newer == {k \in 1..Len(rest) : rest[k].createdAt > Head(os).createdAt}
           n == Cardinality(newer)
       IN SubSeq(rest, 1, n) \o <<Head(os)>> \o SubSeq(rest, n + 1, Len(rest))

\* What getOrders resolves with for {businessId, status}
SelectOrders(filters) ==
  NewestFirst(SelectSeq(orders, LAMBDA o :
    /\ \E n \in 1..Len(o.items) : o.items[n].businessId = filters.businessId
    /\ filters.status = "all" \/ o.status = filters.status))

\* One order card: the complete and cancel buttons are in it only when the
\* order is pending
OrderCard(o) == [id |-> o.id, status |-> o.status, buttons |-> o.status = "pending"]

\* DashboardService.loadOrdersData up to its await: the container shows the
\* loading spinner and getOrders is pending
loadOrdersData ==
  /\ session' = getSession
  /\ IF getCurrentUser = <<>> THEN
       /\ result' = Res("loadOrdersData", FALSE, "nouser", <<>>, <<>>)
       /\ UNCHANGED timers
     ELSE
       /\ Schedule(Timer("getOrders", 300,
                         [businessId |-> getCurrentUser[1].id, status |-> "all"]))
       /\ result' = Res("loadOrdersData", TRUE, "", <<>>, <<>>)
  /\ view' = <<>>
  /\ UNCHANGED <<users, listings, cart, orders, now>>

\* getOrders resolves and loadOrdersData writes the order cards
FireGetOrders(i) ==
  /\ CanFire(i, "getOrders")
  /\ LET os == SelectOrders(timers[i].arg) IN
       view' = <<[k \in 1..Len(os) |-> OrderCard(os[k])]>>
  /\ timers' = Fired(i)
  /\ result' = Res("getOrders", TRUE, "", <<>>, <<>>)
  /\ UNCHANGED <<users, session, listings, cart, orders, now>>

OrderCards == IF view = <<>> THEN <<>> ELSE view[1]

\* A click on the complete or cancel button of card k, and the answer to
\* the confirm dialog
ClickOrderButton(k, status, confirmed) ==
  /\ k \in 1..Len(OrderCards)
  /\ OrderCards[k].buttons
  /\ IF confirmed
     THEN Schedule(Timer("updateOrderStatus", 300,
                         [id |-> OrderCards[k].id, status |-> status]))
     ELSE UNCHANGED timers
  /\ result' = Res("clickOrderButton", confirmed, status, OrderCards[k].id, <<>>)
  /\ UNCHANGED <<users, session, listings, cart, orders, now, view>>

\* The updateOrderStatus callback of a dashboard click, and the rest of
\* DashboardService.updateOrderStatus: on success the orders tab is loaded
\* again
FireUpdateOrderStatus(i) ==
  LET id == timers[i].arg.id
      k == IndexOfId(orders, id) IN
  /\ CanFire(i, "updateOrderStatus")
  /\ session' = getSession
  /\ IF UpdateOrderStatusError(id) # "" THEN
       /\ result' = Res("updateOrderStatus", FALSE, UpdateOrderStatusError(id), id, <<>>)
       /\ timers' = Fired(i)
       /\ UNCHANGED <<orders, view>>
     ELSE
       /\ orders' = [orders EXCEPT ![k] = SetOrderStatus(orders[k], timers[i].arg.status)]
       /\ result' = Res("updateOrderStatus", TRUE, "", id, <<>>)
       /\ timers' = Append(Fired(i),
                           Timer("getOrders", 300,
                                 [businessId |-> getCurrentUser[1].id, status |-> "all"]))
       /\ view' = <<>>
  /\ UNCHANGED <<users, listings, cart, now>>

----------------------------------------------------------------------------
\* ApiService: users

\* MergeUser that takes the role of the patch from every caller
MergeUser_RoleFromPatch(caller, u, data) ==
  [u EXCEPT !.name = data.name,
            !.email = data.email,
            !.role = IF data.role = <<>> THEN u.role ELSE data.role[1],
            !.updatedAt = <<now>>]

\* { ...users[userIndex], ...userData, updatedAt }, the role kept unless the
\* caller is an admin
MergeUser(caller, u, data) ==
  [u EXCEPT !.name = data.name,
            !.email = data.email,
            !.role = IF caller.role # "admin" \/ data.role = <<>>
                     THEN u.role ELSE data.role[1],
            !.updatedAt = <<now>>]

\* updateUserStatus without the test "id === currentUser.id"
updateUserStatus_SelfAllowed(id, status) ==
  LET k == IndexOfId(users, id) IN
  /\ session' = getSession
  /\ IF getCurrentUser = <<>> \/ getCurrentUser[1].role # "admin" THEN
       /\ result' = Res("updateUserStatus", FALSE, "unauthorized", id, status)
       /\ UNCHANGED users
     ELSE IF k = 0 THEN
       /\ result' = Res("updateUserStatus", FALSE, "notfound", id, status)
       /\ UNCHANGED users
     ELSE
       /\ users' = [users EXCEPT ![k].status = status, ![k].updatedAt = <<now>>]
       /\ result' = Res("updateUserStatus", TRUE, "", id, status)
  /\ UNCHANGED <<listings, cart, orders, now, timers, view>>

\* ApiService.updateUserStatus(id, status)
updateUserStatus(id, status) ==
  LET k == IndexOfId(users, id) IN
  /\ session' = getSession
  /\ IF getCurrentUser = <<>> \/ getCurrentUser[1].role # "admin" THEN
       /\ result' = Res("updateUserStatus", FALSE, "unauthorized", id, status)
       /\ UNCHANGED users
     ELSE IF k = 0 THEN
       /\ result' = Res("updateUserStatus", FALSE, "notfound", id, status)
       /\ UNCHANGED users
     ELSE IF id = getCurrentUser[1].id THEN
       /\ result' = Res("updateUserStatus", FALSE, "self", id, status)
       /\ UNCHANGED users
     ELSE
       /\ users' = [users EXCEPT ![k].status = status, ![k].updatedAt = <<now>>]
       /\ result' = Res("updateUserStatus", TRUE, "", id, status)
  /\ UNCHANGED <<listings, cart, orders, now, timers, view>>

\* ApiService.updateUserProfile(id, userData)
updateUserProfile(id, data) ==
  LET k == IndexOfId(users, id) IN
  IF getCurrentUser = <<>> \/ (getCurrentUser[1].role # "admin" /\ getCurrentUser[1].id # id) THEN
    /\ session' = getSession
    /\ result' = Res("updateUserProfile", FALSE, "unauthorized", id, data)
    /\ UNCHANGED <<users, listings, cart, orders, now, timers, view>>
  ELSE IF k = 0 THEN
    /\ session' = getSession
    /\ result' = Res("updateUserProfile", FALSE, "notfound", id, data)
    /\ UNCHANGED <<users, listings, cart, orders, now, timers, view>>
  ELSE
    /\ users' = [users EXCEPT ![k] = MergeUser(getCurrentUser[1], users[k], data)]
    /\ session' = IF id = getCurrentUser[1].id
                  THEN <<[getSession[1] EXCEPT !.userName = data.name]>>
                  ELSE getSession
    /\ result' = Res("updateUserProfile", TRUE, "", id, data)
    /\ UNCHANGED <<listings, cart, orders, now, timers, view>>

----------------------------------------------------------------------------
\* The user of a page waits for the page to settle before the next click
Idle == timers = <<>>

\* Spec: orders.  A customer, logged in at the start, fills the cart from the
\* listing pages, checks out and may log out; the owner of the pasta logs in
\* on the same browser and deletes listings.

Next ==
  \/ Idle /\ \E c \in BusinessCredentials : Login(c[1], c[2])
  \/ Logout
  \/ Idle /\ \E id \in Ids(listings), q \in 1..2 : ClickAddToCart(id, q)
  \/ \E i \in 1..Len(timers) : FireGetListingById(i)
  \/ \E i \in 1..Len(timers) : FireAddToCart(i)
  \/ \E i \in 1..Len(timers) : FireGetCart(i)
  \/ Idle /\ \E f \in CheckoutForms : SubmitCheckoutForm(f)
  \/ Len(orders) < MaxOrders /\
       \E i \in 1..Len(timers), r \in 0..(NumRandom - 1) : FireCreateOrder(i, r)
  \/ \E id \in Ids(listings) : deleteListing(id)

Spec == Init /\ [][Next]_vars

----------------------------------------------------------------------------
\* SpecCart: the cart page and the listing pages of a logged-in customer,
\* over the days in which the pasta expires

NextCart ==
  \/ Idle /\ \E id \in Ids(listings), q \in 1..2 : ClickAddToCart(id, q)
  \/ \E i \in 1..Len(timers) : FireGetListingById(i)
  \/ \E i \in 1..Len(timers) : FireAddToCart(i)
  \/ Idle /\ OpenCartPage
  \/ \E i \in 1..Len(timers) : FireGetCart(i)
  \/ Idle /\ \E k \in 1..Len(Rows) : ClickPlus(k)
  \/ Idle /\ \E k \in 1..Len(Rows) : ClickMinus(k)
  \/ Idle /\ \E k \in 1..Len(Rows) : ClickRemove(k)
  \/ \E i \in 1..Len(timers) : FireUpdateCartItemQuantity(i)
  \/ \E i \in 1..Len(timers) : FireRemoveFromCart(i)
  \/ Tick

SpecCart == Init /\ [][NextCart]_vars

----------------------------------------------------------------------------
\* SpecSeq: orders for one unit of the bread, placed one after the other
\* while earlier requests of the pages may still be pending

BreadId == InitListings[2].id
ValidForm == CheckoutForm(TRUE, "Carol", "c@x.com", "555", <<now + 1>>)

NextSeq ==
  \/ Len(timers) < MaxPending /\ ClickAddToCart(BreadId, 1)
  \/ \E i \in 1..Len(timers) : FireGetListingById(i)
  \/ \E i \in 1..Len(timers) : FireAddToCart(i)
  \/ \E i \in 1..Len(timers) : FireGetCart(i)
  \/ Len(timers) < MaxPending /\ SubmitCheckoutForm(ValidForm)
  \/ Len(orders) <= MaxOrders /\
       \E i \in 1..Len(timers), r \in 0..(NumRandom - 1) : FireCreateOrder(i, r)

SpecSeq == Init /\ [][NextSeq]_vars

----------------------------------------------------------------------------
\* SpecFrame: a customer orders the pasta, one unit at a time; once an order
\* exists, the customer, the owner of the pasta and the pages go on working

PastaId == InitListings[1].id

NextFrame ==
  \/ Idle /\ cart = <<>> /\ ClickAddToCart(PastaId, 1)
  \/ \E i \in 1..Len(timers) : FireGetListingById(i)
  \/ \E i \in 1..Len(timers) : FireAddToCart(i)
  \/ \E i \in 1..Len(timers) : FireGetCart(i)
  \/ Idle /\ SubmitCheckoutForm(ValidForm)
  \/ Len(orders) <= MaxOrders /\
       \E i \in 1..Len(timers), r \in 0..(NumRandom - 1) : FireCreateOrder(i, r)
  \/ Idle /\ orders # <<>> /\ \E c \in StoreCredentials : Login(c[1], c[2])
  \/ Idle /\ \E id \in Ids(orders), st \in Statuses : updateOrderStatus(id, st)
  \/ Idle /\ orders # <<>> /\ updateListing(PastaId, Patch)
  \/ Idle /\ orders # <<>> /\ deleteListing(PastaId)
  \/ Idle /\ orders # <<>> /\ \E d \in ProfileData : updateUserProfile(CustId, d)

SpecFrame == Init /\ [][NextFrame]_vars

----------------------------------------------------------------------------
\* SpecCatalog: businesses and the administrator manage listings

InitCatalog ==
  /\ users = InitUsers
  /\ session = <<>>
  /\ listings = <<>>
  /\ cart = <<>>
  /\ orders = <<>>
  /\ now = 0
  /\ timers = <<>>
  /\ view = <<>>
  /\ result = Res("init", TRUE, "", <<>>, <<>>)

\* An id that no listing has
UnknownId == <<-9, 0>>

NextCatalog ==
  \/ \E c \in Credentials : Login(c[1], c[2])
  \/ Logout
  \/ \E d \in ListingData, r \in 0..(NumRandom - 1) : createListing(d, r)
  \/ \E id \in Ids(listings) \cup {UnknownId} : updateListing(id, Patch)
  \/ \E id \in Ids(listings) \cup {UnknownId} : deleteListing(id)

SpecCatalog == InitCatalog /\ [][NextCatalog]_vars

----------------------------------------------------------------------------
\* SpecTotals: the customer has filled the cart from the six listings of
\* createMockListings and has just submitted the checkout form

InitTotals ==
  /\ users = InitUsers
  /\ session = <<CustSession>>
  /\ listings = MockListings
  /\ cart \in
       {<<CartItem(MockListings[k], q)>> : k \in 1..6, q \in 1..MaxCartQty}
       \cup
       {<<CartItem(MockListings[k[1]], q[1]), CartItem(MockListings[k[2]], q[2])>> :
          k \in {p \in (1..6) \X (1..6) : p[1] # p[2]},
          q \in (1..MaxCartQty) \X (1..MaxCartQty)}
  /\ orders = <<>>
  /\ now = 0
  /\ timers = <<Timer("createOrder", 500, OrderData(ValidForm))>>
  /\ view = <<>>
  /\ result = Res("submitCheckoutForm", TRUE, "", <<>>, ValidForm)

NextTotals ==
  \/ \E i \in 1..Len(timers), r \in 0..(NumRandom - 1) : FireCreateOrder(i, r)
  \/ \E i \in 1..Len(timers) : FireGetCart(i)

SpecTotals == InitTotals /\ [][NextTotals]_vars

----------------------------------------------------------------------------
\* SpecBrowse: the pages read the listings while time passes and while the
\* order of the customer, who has the last Bread in the cart, is placed

\* The Bread is good until the end of day 0, the Pasta until the end of day 1
BrowseListings == [InitListings EXCEPT ![2].expiryDate = 0]

InitBrowse ==
  /\ users = InitUsers
  /\ session = <<CustSession>>
  /\ listings = BrowseListings
  /\ cart = <<CartItem(BrowseListings[2], 1)>>
  /\ orders = <<>>
  /\ now = 0
  /\ timers = <<Timer("createOrder", 500, OrderData(ValidForm))>>
  /\ view = <<>>
  /\ result = Res("submitCheckoutForm", TRUE, "", <<>>, ValidForm)

\* Filters of the browse page, the business dashboard and the admin page
BrowseFilters ==
  { NoFilters,
    Filters(<<GreenId>>, "", "", "", "", 0),
    Filters(<<>>, "active", "", "", "", 0),
    Filters(<<>>, "expired", "", "", "", 0),
    Filters(<<>>, "sold-out", "", "garden", "", 0),
    Filters(<<>>, "", "all", "", "expiry", 0),
    Filters(<<>>, "", "bakery", "", "", 0),
    Filters(<<>>, "", "", "PAS", "", 0),
    Filters(<<>>, "", "", "LOAF", "", 0),
    Filters(<<>>, "", "", "tofu", "", 0),
    Filters(<<>>, "", "", "", "price-asc", 0),
    Filters(<<>>, "", "", "", "price-desc", 1),
    Filters(<<>>, "", "", "", "discount", 0),
    Filters(<<>>, "", "", "", "newest", 2),
    Filters(<<BakeryId>>, "active", "bakery", "b", "price-asc", 1) }

NextBrowse ==
  \/ Tick
  \/ \E f \in BrowseFilters : getListings(f)
  \/ \E i \in 1..Len(timers), r \in 0..(NumRandom - 1) : FireCreateOrder(i, r)

SpecBrowse == InitBrowse /\ [][NextBrowse]_vars

----------------------------------------------------------------------------
\* SpecUsers: accounts.  Visitors register, users log in and out and save
\* their profile, the administrator blocks and activates users.  Nobody is
\* logged in at the start.

InitUsersSpec ==
  /\ users = InitUsers
  /\ session = <<>>
  /\ listings = InitListings
  /\ cart = <<>>
  /\ orders = <<>>
  /\ now = 0
  /\ timers = <<>>
  /\ view = <<>>
  /\ result = Res("init", TRUE, "", <<>>, <<>>)

UserCredentials ==
  { <<"admin@savebite.com", "pw">>, <<"green@x.com", "pw">>, <<"green@x.com", "bad">>,
    <<"dan@x.com", "pw">> }

\* The registration form: a new address, a stored address in another
\* letter case, and a form with the name left empty
RegisterForms ==
  { RegisterData("Dan", "dan@x.com", "pw", "customer"),
    RegisterData("Carl", "CUST@x.com", "pw", "customer"),
    RegisterData("", "eve@x.com", "pw", "customer") }

\* The settings form of the dashboard sends name and email; a request made
\* by hand can add a role.  The second address is the one of Carol in
\* another letter case, the third is an address that nobody has.
ProfilePatches ==
  { [name |-> "Gia", email |-> "green@x.com", role |-> <<"admin">>],
    [name |-> "Gina", email |-> "CUST@x.com", role |-> <<>>],
    [name |-> "Gina", email |-> "gina@x.com", role |-> <<>>] }

NextUsers ==
  \/ \E c \in UserCredentials : Login(c[1], c[2])
  \/ Logout
  \/ Len(users) < MaxUsers /\ \E d \in RegisterForms : register(d, 0)
  \/ \E id \in {AdminId, GreenId, UnknownId}, st \in {"blocked", "active"} : updateUserStatus(id, st)
  \/ \E id \in {AdminId, GreenId, UnknownId}, d \in ProfilePatches : updateUserProfile(id, d)

SpecUsers == InitUsersSpec /\ [][NextUsers]_vars

----------------------------------------------------------------------------
\* SpecSession: the lifetime of a session.  The customer logged in six days
\* ago, so that the stored session ends at the start of day 1.

InitSession ==
  /\ users = InitUsers
  /\ session = <<[CustSession EXCEPT !.createdAt = 1 - SessionDays, !.expiresAt = 1]>>
  /\ listings = InitListings
  /\ cart = <<>>
  /\ orders = <<>>
  /\ now = 0
  /\ timers = <<>>
  /\ view = <<>>
  /\ result = Res("init", TRUE, "", <<>>, <<>>)

SessionCredentials == { <<"CUST@x.com", "pw">>, <<"CUST@x.com", "bad">>, <<"green@x.com", "pw">> }

NextSession ==
  \/ Tick
  \/ GetCurrentUser
  \/ \E c \in SessionCredentials : Login(c[1], c[2])
  \/ Logout
  \/ Len(users) < MaxUsers /\ \E d \in RegisterForms : register(d, 0)

SpecSession == InitSession /\ [][NextSession]_vars

----------------------------------------------------------------------------
\* SpecDiscount: the home page draws the featured listings, sorted by
\* discount, for stores of two listings with prices that businesses entered

DiscountPrices ==
  { <<1299, 799>>, <<999, 599>>, <<599, 299>>, <<2299, 1299>>, <<1000, 333>>,
    <<120, 51>>, <<72, 45>>, <<800, 100>>, <<30, 10>>, <<90, 30>> }

InitDiscount ==
  /\ users = InitUsers
  /\ session = <<>>
  /\ listings \in
       {<<[InitListings[1] EXCEPT !.originalPrice = p[1], !.discountedPrice = p[2]],
          [InitListings[2] EXCEPT !.originalPrice = q[1], !.discountedPrice = q[2]]>> :
          p \in DiscountPrices, q \in DiscountPrices}
  /\ cart = <<>>
  /\ orders = <<>>
  /\ now = 0
  /\ timers = <<>>
  /\ view = <<>>
  /\ result = Res("init", TRUE, "", <<>>, <<>>)

NextDiscount == renderListings(Filters(<<>>, "", "", "", "discount", 0))

SpecDiscount == InitDiscount /\ [][NextDiscount]_vars

----------------------------------------------------------------------------
\* C1.  A successful createOrder reduces the quantity of the listing of every
\* cart item by the purchased quantity, marks it sold-out when nothing is
\* left, appends exactly one pending order and empties the cart; the other
\* listings are unchanged and a cart item without a listing is skipped.

C1_PlaceOrderEffects ==
  [][ (result'.op = "createOrder" /\ result'.ok) =>
        /\ cart' = <<>>
        /\ Len(orders') = Len(orders) + 1
        /\ SubSeq(orders', 1, Len(orders)) = orders
        /\ orders'[Len(orders')].status = "pending"
        /\ orders'[Len(orders')].items = cart
        /\ Len(listings') = Len(listings)
        /\ \A n \in 1..Len(cart) :
              LET k == IndexOfId(listings, cart[n].id) IN
              k # 0 =>
                /\ listings'[k].quantity = listings[k].quantity - cart[n].quantity
                /\ listings'[k].status =
                     IF listings'[k].quantity <= 0 THEN "sold-out" ELSE listings[k].status
        /\ \A k \in 1..Len(listings) :
              listings[k].id \notin Ids(cart) => listings'[k] = listings[k]
    ]_vars

\* An order was placed for a cart that held an item whose listing had been
\* deleted and an item that took the last unit of its listing
C1_Witness ==
  /\ result.op = "createOrder" /\ result.ok
  /\ cart = <<>>
  /\ Len(orders) = 1
  /\ \E n \in 1..Len(orders[1].items) : orders[1].items[n].id \notin Ids(listings)
  /\ \E k \in 1..Len(listings) :
        /\ listings[k].status = "sold-out"
        /\ \E n \in 1..Len(orders[1].items) : orders[1].items[n].id = listings[k].id

\* C2.  Every stored listing has a quantity of at least 0.
C2_QuantityNonNegative == \A k \in 1..Len(listings) : listings[k].quantity >= 0

\* C3.  After every mutation of the cart (the add that ListingService.addToCart
\* ends with, the update behind the plus and minus buttons, the removal) every
\* cart entry has a quantity of at least 1 and of at most the quantity that
\* the listing with its id has at that time.
C3_CartQuantityBounds ==
  [][ result'.op \in {"addToCart", "updateCartItemQuantity", "removeFromCart"} =>
        \A n \in 1..Len(cart') :
          LET k == IndexOfId(listings', cart'[n].id) IN
          /\ cart'[n].quantity >= 1
          /\ k # 0 => cart'[n].quantity <= listings'[k].quantity
    ]_vars

\* C4.  createOrder fails when there is no current user (no session, or an
\* expired one) and when the cart is empty; the orders, the listings and the
\* cart are then what they were before the call.
C4_PlaceOrderRejected ==
  [][ (result'.op = "createOrder" /\ (getCurrentUser = <<>> \/ cart = <<>>)) =>
        /\ ~result'.ok
        /\ orders' = orders
        /\ listings' = listings
        /\ cart' = cart
    ]_vars

\* createOrder was refused for want of a session while the cart held items
C4_Witness ==
  /\ result.op = "createOrder" /\ ~result.ok /\ result.msg = "unauthorized"
  /\ session = <<>>
  /\ cart # <<>>
  /\ orders = <<>>

\* C5.  Orders placed one after the other for the bread, of which one unit is
\* in stock: every createOrder subtracts from the quantity that the previous
\* one persisted, so the stored quantity is the initial quantity minus all
\* units ordered so far (no decrement is lost), and from the first order on
\* the listing is sold-out and stays sold-out.
C5_SequentialOrders ==
  LET k == IndexOfId(listings, BreadId)
      sold == Sum([o \in 1..Len(orders) |->
                Sum([n \in 1..Len(orders[o].items) |->
                  IF orders[o].items[n].id = BreadId
                  THEN orders[o].items[n].quantity ELSE 0])])
  IN /\ k # 0
     /\ listings[k].quantity = InitListings[2].quantity - sold
     /\ sold >= 1 => listings[k].status = "sold-out"

\* Two orders, each for one unit of the bread, were placed against the
\* quantity 1; the second found the 0 that the first had stored
C5_Witness ==
  /\ Len(orders) = 2
  /\ \A o \in 1..2 :
        /\ Len(orders[o].items) = 1
        /\ orders[o].items[1].id = BreadId
        /\ orders[o].items[1].quantity = 1
  /\ result.op = "createOrder" /\ result.ok
  /\ listings[2].quantity = -1
  /\ listings[2].status = "sold-out"

\* C6.  No step removes an order, and no step changes anything of a stored
\* order but its status and updatedAt: the orders collection only grows and
\* the id, the purchaser, the contact fields, the items and the amounts of an
\* order stay what createOrder wrote.
C6_OrdersImmutable ==
  [][ /\ Len(orders') >= Len(orders)
      /\ \A k \in 1..Len(orders) :
            [orders'[k] EXCEPT !.status = orders[k].status,
                               !.updatedAt = orders[k].updatedAt] = orders[k]
    ]_vars

\* After the first order the customer was renamed and ordered again, the
\* owner completed the first order and deleted the listing: the first order
\* still carries the old name and its item
C6_Witness ==
  /\ Len(orders) = 2
  /\ orders[1].status = "completed" /\ orders[1].updatedAt # <<>>
  /\ orders[1].userName = "Carol" /\ orders[2].userName = "Caz"
  /\ orders[1].items # <<>> /\ orders[1].items[1].id = PastaId
  /\ PastaId \notin Ids(listings)

\* C8.  Submitting a checkout form whose name, e-mail, phone or pickup time is
\* empty, or whose pickup time is not later than the current time, creates no
\* order: the handler stops before it calls createOrder, so no request is
\* scheduled and the orders, the listings and the cart are unchanged.
C8_InvalidCheckoutRejected ==
  [][ ( /\ result'.op = "submitCheckoutForm"
        /\ \/ result'.arg.customerName = ""
           \/ result'.arg.customerEmail = ""
           \/ result'.arg.customerPhone = ""
           \/ result'.arg.pickupTime = <<>>
           \/ result'.arg.pickupTime[1] <= now ) =>
        /\ ~result'.ok
        /\ timers' = timers
        /\ orders' = orders
        /\ listings' = listings
        /\ cart' = cart
    ]_vars

\* A logged-in customer with items in the cart submitted a complete form
\* whose pickup time is the current time, and was turned away
C8_Witness ==
  /\ result.op = "submitCheckoutForm" /\ ~result.ok /\ result.msg = "pickupTime"
  /\ result.arg.pickupTime = <<now>>
  /\ cart # <<>>
  /\ getCurrentUser # <<>>
  /\ orders = <<>>

\* C9.  updateListing and deleteListing fail and leave the whole listings
\* collection unchanged unless there is a caller, the listing is found, and
\* the caller is an admin or the business whose id is the listing's
\* businessId.  A successful delete removes the listing that was found and a
\* successful update changes only that one; every other listing is unchanged.
C9_OwnerOrAdminOnly ==
  [][ result'.op \in {"updateListing", "deleteListing"} =>
        LET i == IndexOfId(listings, result'.id)
            allowed == /\ getCurrentUser # <<>>
                       /\ i # 0
                       /\ \/ getCurrentUser[1].role = "admin"
                          \/ getCurrentUser[1].id = listings[i].businessId
        IN /\ ~allowed => (~result'.ok /\ listings' = listings)
           /\ (result'.ok /\ result'.op = "deleteListing") =>
                /\ Len(listings') = Len(listings) - 1
                /\ \A j \in 1..Len(listings') :
                      listings'[j] = IF j < i THEN listings[j] ELSE listings[j + 1]
           /\ (result'.ok /\ result'.op = "updateListing") =>
                /\ Len(listings') = Len(listings)
                /\ \A j \in 1..Len(listings) : j # i => listings'[j] = listings[j]
    ]_vars

\* A business was refused the update or the removal of a listing that
\* belongs to another business
C9_Witness ==
  /\ result.op \in {"updateListing", "deleteListing"}
  /\ ~result.ok /\ result.msg = "notowner"
  /\ getCurrentUser # <<>> /\ getCurrentUser[1].role = "business"
  /\ \E k \in 1..Len(listings) :
        listings[k].id = result.id /\ listings[k].businessId # getCurrentUser[1].id

\* C10.  createListing fails and leaves the listings unchanged unless the
\* caller is a business or an admin; on success getListingById of the
\* returned id yields a listing with the data that was passed in, an id that
\* no listing had before, the caller's id and business name, and the status
\* active.
C10_CreateRoundTrip ==
  [][ result'.op = "createListing" =>
        IF Unauthorized
        THEN ~result'.ok /\ listings' = listings
        ELSE /\ result'.ok
             /\ getListingById(result.id)' # <<>>
             /\ LET l == getListingById(result.id)'[1]
                    d == result'.arg
                    u == getCurrentUser[1]
                IN /\ l.foodName = d.foodName
                   /\ l.category = d.category
                   /\ l.description = d.description
                   /\ l.originalPrice = d.originalPrice
                   /\ l.discountedPrice = d.discountedPrice
                   /\ l.quantity = d.quantity
                   /\ l.expiryDate = d.expiryDate
                   /\ l.id \notin Ids(listings)
                   /\ l.businessId = u.id
                   /\ l.businessName = (IF u.businessName # "" THEN u.businessName ELSE u.name)
                   /\ l.status = "active"
    ]_vars

\* C7 as stated.  For the order that createOrder appends, subtotal and
\* savings are the sums over the items, tax is subtotal * 0.08, total is
\* subtotal + tax, and the four amounts are the ones that the cart page
\* computes for the cart that is being ordered.
C7_TotalsAsStated ==
  [][ (result'.op = "createOrder" /\ result'.ok) =>
        LET o == orders'[Len(orders')]
            c == CartTotals(cart)
        IN /\ o.items = cart
           /\ o.subtotal = c.subtotal
           /\ o.savings = c.savings
           /\ o.tax = Times(o.subtotal, parseFloat(TaxRate))
           /\ o.total = Plus(o.subtotal, o.tax)
           /\ o.tax = c.tax
           /\ o.total = c.total
    ]_vars

\* C7.  For the order that createOrder appends, subtotal and savings are the
\* sums over the items and are the very numbers of the cart page; tax and
\* total are sums of per-item products (price * quantity * 0.08 and
\* price * quantity * 1.08), which are 8% of the subtotal and subtotal + tax
\* up to the rounding of binary64 arithmetic: formatted to cents, as every
\* page shows them, the four amounts equal those of the cart page and the
\* exact decimal amounts (prices in cents, tax and total rounded from
\* hundredths of a cent).
C7_TotalsToTheCent ==
  [][ (result'.op = "createOrder" /\ result'.ok) =>
        LET o == orders'[Len(orders')]
            c == CartTotals(cart)
        IN /\ o.items = cart
           /\ o.subtotal = c.subtotal
           /\ o.savings = c.savings
           /\ toFixed2(o.subtotal) =
                Sum([n \in 1..Len(cart) |-> cart[n].discountedPrice * cart[n].quantity])
           /\ toFixed2(o.savings) =
                Sum([n \in 1..Len(cart) |->
                       (cart[n].originalPrice - cart[n].discountedPrice) * cart[n].quantity])
           /\ toFixed2(o.tax) = toFixed2(c.tax)
           /\ toFixed2(o.total) = toFixed2(c.total)
           /\ toFixed2(o.tax) =
                (Sum([n \in 1..Len(cart) |->
                        cart[n].discountedPrice * cart[n].quantity * TaxRate]) + 50) \div 100
           /\ toFixed2(o.total) =
                (Sum([n \in 1..Len(cart) |->
                        cart[n].discountedPrice * cart[n].quantity * (100 + TaxRate)]) + 50) \div 100
    ]_vars

\* An order whose total is not the number subtotal + tax, although both are
\* the same amount to the cent
C7_Witness ==
  /\ result.op = "createOrder" /\ result.ok
  /\ orders # <<>>
  /\ orders[Len(orders)].total # Plus(orders[Len(orders)].subtotal, orders[Len(orders)].tax)
  /\ toFixed2(orders[Len(orders)].total) =
       toFixed2(Plus(orders[Len(orders)].subtotal, orders[Len(orders)].tax))

----------------------------------------------------------------------------
\* C11.  A getListings call made when the expiryDate of an active listing
\* has passed stores that listing with status expired; a listing that is
\* stored as expired stays expired under every getListings call, whatever
\* the filters; after a getListings call no active listing with a passed
\* expiryDate is left, and a call that finds none leaves the stored
\* listings as they are, so that repeating the read changes nothing more.
\* (A step that ends with the result of getListings and leaves the clock
\* alone is a getListings call.)
C11_ExpiryPersisted ==
  [][ (result'.op = "getListings" /\ now' = now) =>
        /\ Len(listings') = Len(listings)
        /\ \A i \in 1..Len(listings) :
             /\ (listings[i].status = "active" /\ listings[i].expiryDate < now) =>
                  listings'[i] = [listings[i] EXCEPT !.status = "expired"]
             /\ listings[i].status = "expired" => listings'[i].status = "expired"
        /\ \A i \in 1..Len(listings') :
             ~(listings'[i].status = "active" /\ listings'[i].expiryDate < now')
        /\ (\A i \in 1..Len(listings) :
              ~(listings[i].status = "active" /\ listings[i].expiryDate < now)) =>
             listings' = listings
    ]_vars

\* A read with the status filter expired, made after an earlier read has
\* stored the flip, returns the expired listing
C11_Witness ==
  /\ result.op = "getListings"
  /\ result.arg.status = "expired"
  /\ result.msg # <<>>
  /\ \E i \in 1..Len(listings) :
       listings[i].status = "expired" /\ listings[i].expiryDate < now

\* C12.  A getListings call, whatever its filters, leaves users, session,
\* cart and orders as they are and stores the same listings in the same
\* order: a listing that is active with a passed expiryDate is stored with
\* status expired and every other listing, a sold-out one included, is
\* stored unchanged, so that quantity, prices, businessId and businessName
\* never change.  Filter, sort and limit shape only the resolved array.
C12_ReadFrame ==
  [][ (result'.op = "getListings" /\ now' = now) =>
        /\ UNCHANGED <<users, session, cart, orders>>
        /\ Len(listings') = Len(listings)
        /\ \A i \in 1..Len(listings) :
             listings'[i] =
               IF listings[i].status = "active" /\ listings[i].expiryDate < now
               THEN [listings[i] EXCEPT !.status = "expired"]
               ELSE listings[i]
    ]_vars

\* A read sorted by price resolves the two listings in the reverse of the
\* stored order while the store holds a sold-out listing whose expiryDate
\* has passed
C12_Witness ==
  /\ result.op = "getListings"
  /\ result.arg.sortBy = "price-asc"
  /\ Len(result.msg) = 2
  /\ Len(listings) = 2
  /\ result.msg[1].id = listings[2].id
  /\ listings[2].status = "sold-out"
  /\ listings[2].expiryDate < now

\* C13.  The array that getListings(filters) resolves holds, once each, the
\* stored listings (as stored after the flip) that pass every filter that is
\* provided: businessId equal, status equal, category equal unless the
\* filter is "all", and the search term found, letter case ignored, in
\* foodName, description or businessName.  It is ordered by the sort key
\* (expiryDate ascending, discountedPrice ascending or descending, discount
\* fraction descending; stored order when no known key is given).  With a
\* limit it holds the first `limit` of them: every matching listing that
\* is left out comes after all that are returned.  With the status filter
\* active no returned listing has a passed expiryDate.
C13_ResolvedListings ==
  [][ (result'.op = "getListings" /\ now' = now) =>
        LET r == result'.msg
            f == result'.arg
            ls == listings'
            Found(text) == includes(LowerChars(Chars(text)), LowerChars(Chars(f.search)))
            Want == {i \in 1..Len(ls) :
                       /\ f.businessId = <<>> \/ ls[i].businessId = f.businessId[1]
                       /\ f.status = "" \/ ls[i].status = f.status
                       /\ f.category \in {"", "all"} \/ ls[i].category = f.category
                       /\ \/ f.search = ""
                          \/ Found(ls[i].foodName)
                          \/ Found(ls[i].description)
                          \/ Found(ls[i].businessName)}
            Leq(a, b) ==
              CASE f.sortBy = "expiry" -> a.expiryDate <= b.expiryDate
                [] f.sortBy = "price-asc" -> a.discountedPrice <= b.discountedPrice
                [] f.sortBy = "price-desc" -> a.discountedPrice >= b.discountedPrice
                [] f.sortBy = "discount" ->
                     (a.originalPrice - a.discountedPrice) * b.originalPrice >=
                     (b.originalPrice - b.discountedPrice) * a.originalPrice
                [] OTHER -> IndexOfId(ls, a.id) <= IndexOfId(ls, b.id)
        IN /\ Len(r) = IF f.limit # 0 /\ Cardinality(Want) > f.limit
                       THEN f.limit ELSE Cardinality(Want)
           /\ \A k \in 1..Len(r) : \E i \in Want : r[k] = ls[i]
           /\ \A j, k \in 1..Len(r) : j # k => r[j].id # r[k].id
           /\ \A k \in 1..(Len(r) - 1) : Leq(r[k], r[k + 1])
           /\ \A i \in Want :
                (\A k \in 1..Len(r) : r[k] # ls[i]) =>
                  \A k \in 1..Len(r) : Leq(r[k], ls[i])
           /\ f.status = "active" =>
                \A k \in 1..Len(r) : ~(r[k].expiryDate < now')
    ]_vars

\* The search term "PAS" has found the Pasta, which the same read has
\* stored and resolved as expired
C13_Witness ==
  /\ result.op = "getListings"
  /\ result.arg.search = "PAS"
  /\ Len(result.msg) = 1
  /\ result.msg[1].foodName = "Pasta"
  /\ result.msg[1].status = "expired"
  /\ result.msg[1] \in {listings[i] : i \in 1..Len(listings)}

\* C14 as stated.  The percentage on every card is the exact quotient
\* 100 * (original - discounted) / original rounded to the nearest integer,
\* a half rounded up, and the cards are in non-increasing order of it.
C14_DiscountAsStated ==
  (result.op = "renderListings" /\ view # <<>>) =>
    /\ \A k \in 1..Len(view[1]) :
         view[1][k].discountPercentage =
           (200 * (view[1][k].originalPrice - view[1][k].discountedPrice)
              + view[1][k].originalPrice) \div (2 * view[1][k].originalPrice)
    /\ \A k \in 1..(Len(view[1]) - 1) :
         view[1][k].discountPercentage >= view[1][k + 1].discountPercentage

\* C14.  The percentage on every card is Math.round of the binary64 value
\* of (original - discounted) / original * 100.  It is an integer nearest
\* to the exact percentage and is the exact percentage rounded half up
\* whenever the exact percentage is not an integer plus one half; 12.99 and
\* 7.99 give 38.  The cards drawn for sortBy discount are in non-increasing
\* order of the percentage.
C14_DiscountNearest ==
  (result.op = "renderListings" /\ view # <<>>) =>
    /\ \A k \in 1..Len(view[1]) :
         LET o == view[1][k].originalPrice
             d == view[1][k].discountedPrice
             p == view[1][k].discountPercentage
         IN /\ 2 * (100 * (o - d) - p * o) <= o
            /\ 2 * (p * o - 100 * (o - d)) <= o
            /\ (200 * (o - d)) % (2 * o) # o => p = (200 * (o - d) + o) \div (2 * o)
            /\ (o = 1299 /\ d = 799) => p = 38
    /\ \A k \in 1..(Len(view[1]) - 1) :
         view[1][k].discountPercentage >= view[1][k + 1].discountPercentage

\* Two cards in an order that differs from the stored order, the second
\* for 1.20 reduced to 0.51: exactly 57.5 percent, shown as 57
C14_Witness ==
  /\ result.op = "renderListings"
  /\ view # <<>>
  /\ Len(view[1]) = 2
  /\ view[1][1].id = listings[2].id
  /\ view[1][2].originalPrice = 120
  /\ view[1][2].discountedPrice = 51
  /\ view[1][2].discountPercentage = 57

\* C15.  A login with the address of a user whose status is blocked fails,
\* with the right password as with a wrong one: it resolves no success,
\* stores no session, and leaves the stored session, if there is one, and
\* the users as they were.
C15_BlockedLoginFails ==
  [][ \A c \in UserCredentials :
        (/\ Login(c[1], c[2])
         /\ \E i \in 1..Len(users) :
              /\ toLowerCase(users[i].email) = toLowerCase(c[1])
              /\ \A j \in 1..(i - 1) : toLowerCase(users[j].email) # toLowerCase(c[1])
              /\ users[i].status = "blocked")
        => /\ result'.op = "login"
           /\ ~result'.ok
           /\ session' = session
           /\ users' = users
    ]_vars

\* A blocked user has typed the right password and has been refused while
\* the session of the administrator who blocked them is still stored
C15_Witness ==
  /\ result.op = "login"
  /\ ~result.ok
  /\ result.msg = "blocked"
  /\ session # <<>>
  /\ session[1].userId # result.id
  /\ \E i \in 1..Len(users) : users[i].id = result.id /\ users[i].status = "blocked"

\* C16.  In every state reached by register and updateUserProfile (and the
\* other operations on accounts) no two stored users have addresses that are
\* equal when letter case is ignored; and a register call with an address
\* that equals a stored one up to letter case fails and leaves users and
\* session as they were.
C16_UniqueEmails ==
  /\ [](\A i, j \in 1..Len(users) :
          i # j => toLowerCase(users[i].email) # toLowerCase(users[j].email))
  /\ [][ \A d \in RegisterForms :
           (/\ register(d, 0)
            /\ \E i \in 1..Len(users) : toLowerCase(users[i].email) = toLowerCase(d.email))
           => /\ ~result'.ok
              /\ users' = users
              /\ session' = session
       ]_vars

\* C17.  A getCurrentUser call returns a user exactly when a session is
\* stored and the time is strictly before its expiresAt, and the user is
\* the one of the session; a call at or after expiresAt removes the stored
\* session.  logout removes the session.  A session is stored only by a
\* successful login or register and ends SessionDays after its creation,
\* so that after an expired read or a logout every call returns none until
\* the next successful login or register.  The session that getSession
\* yields is none or a session before its end for exactly one stored user.
C17_SessionLifetime ==
  /\ [][ (result'.op = "getCurrentUser" /\ now' = now) =>
           LET valid == session # <<>> /\ now < session[1].expiresAt IN
           /\ result'.msg # <<>> <=> valid
           /\ valid => /\ session' = session
                       /\ result'.msg[1].id = session[1].userId
                       /\ result'.msg[1] \in {users[i] : i \in 1..Len(users)}
           /\ ~valid => session' = <<>>
       ]_vars
  /\ [][ result'.op = "logout" => session' = <<>> ]_vars
  /\ [][ (session' # <<>> /\ session' # session) =>
           /\ result'.op \in {"login", "register"}
           /\ result'.ok
           /\ session'[1].createdAt = now'
           /\ session'[1].expiresAt = now' + SessionDays
           /\ session'[1].userId = result'.id
       ]_vars
  /\ [](getSession # <<>> =>
          /\ now < getSession[1].expiresAt
          /\ getSession[1].expiresAt = getSession[1].createdAt + SessionDays
          /\ Cardinality({i \in 1..Len(users) : users[i].id = getSession[1].userId}) = 1)

\* A call at the end of the stored session has returned none and removed
\* the session
C17_Witness ==
  /\ result.op = "getCurrentUser"
  /\ result.msg = <<>>
  /\ result.arg # <<>>
  /\ result.arg[1].expiresAt = now
  /\ session = <<>>

\* C18.  updateUserStatus succeeds exactly when the caller is an admin and
\* the target is another stored user.  Otherwise (nobody logged in, a
\* caller who is not an admin, the caller's own id whatever the new
\* status, an unknown id) it fails and the users are left as they were.
\* When it succeeds, the target gets the new status (and a new updatedAt)
\* and every other user's record is unchanged.
C18_StatusByAdminOnly ==
  [][ result'.op = "updateUserStatus" =>
        LET caller == getCurrentUser
            id == result'.id
            allowed == /\ caller # <<>>
                       /\ caller[1].role = "admin"
                       /\ id # caller[1].id
                       /\ id \in Ids(users)
        IN /\ result'.ok <=> allowed
           /\ ~allowed => users' = users
           /\ allowed =>
                /\ Len(users') = Len(users)
                /\ \A i \in 1..Len(users) :
                     users'[i] = IF users[i].id = id
                                 THEN [users[i] EXCEPT !.status = result'.arg,
                                                       !.updatedAt = users'[i].updatedAt]
                                 ELSE users[i]
    ]_vars

\* An administrator has tried to block their own account and has been
\* refused and is still active, after having blocked another user
C18_Witness ==
  /\ result.op = "updateUserStatus"
  /\ ~result.ok
  /\ result.msg = "self"
  /\ result.arg = "blocked"
  /\ getCurrentUser # <<>>
  /\ getCurrentUser[1].id = result.id
  /\ getCurrentUser[1].status = "active"
  /\ \E i \in 1..Len(users) : users[i].status = "blocked"

\* C19.  updateUserProfile fails and leaves the users as they were unless
\* somebody is logged in who is an admin or whose id is the target id.  A
\* successful call by a caller who is not an admin is a call on the
\* caller's own id and leaves the role of every stored user as it was,
\* also when the patch contains a role.  In every step a stored user's
\* role changes only by a successful updateUserProfile of an admin, so no
\* sequence of operations of a user who is not an admin raises their role.
C19_RoleKept ==
  /\ [][ result'.op = "updateUserProfile" =>
           LET caller == getCurrentUser
               id == result'.id
               authorized == caller # <<>> /\ (caller[1].role = "admin" \/ caller[1].id = id)
           IN /\ ~authorized => (~result'.ok /\ users' = users)
              /\ (result'.ok /\ caller[1].role # "admin") =>
                   /\ id = caller[1].id
                   /\ Len(users') = Len(users)
                   /\ \A i \in 1..Len(users) :
                        /\ users'[i].role = users[i].role
                        /\ users[i].id # id => users'[i] = users[i]
       ]_vars
  /\ [][ (\E i \in 1..Len(users) : users'[i].role # users[i].role) =>
           /\ result'.op = "updateUserProfile"
           /\ result'.ok
           /\ getCurrentUser # <<>>
           /\ getCurrentUser[1].role = "admin"
       ]_vars

\* A business has saved its own profile with a patch that asks for the role
\* admin: the name of the patch is stored, the role is still business
C19_Witness ==
  /\ result.op = "updateUserProfile"
  /\ result.ok
  /\ result.arg.role = <<"admin">>
  /\ getCurrentUser # <<>>
  /\ getCurrentUser[1].id = result.id
  /\ getCurrentUser[1].name = result.arg.name
  /\ getCurrentUser[1].role = "business"

\* C20.  After a successful updateUserProfile of a caller on the caller's
\* own id, the stored session's userName, userEmail and userRole are the
\* name, email and role of the stored user, whatever the patch.
C20_SessionFollowsProfile ==
  [][ (/\ result'.op = "updateUserProfile"
       /\ result'.ok
       /\ getCurrentUser # <<>>
       /\ getCurrentUser[1].id = result'.id) =>
        /\ session' # <<>>
        /\ LET u == users'[IndexOfId(users', result'.id)] IN
           /\ session'[1].userId = u.id
           /\ session'[1].userName = u.name
           /\ session'[1].userEmail = u.email
           /\ session'[1].userRole = u.role
    ]_vars

----------------------------------------------------------------------------
\* Orders and the business dashboard: Carol's checkout is pending, then the
\* users log in and act on the order through the API and the orders tab

InitOrders ==
  /\ users = InitUsers
  /\ session = <<CustSession>>
  /\ listings = InitListings
  /\ cart \in {<<CartItem(InitListings[1], 1)>>,
               <<CartItem(InitListings[2], 1)>>,
               <<CartItem(InitListings[2], 1), CartItem(InitListings[1], 1)>>}
  /\ orders = <<>>
  /\ now = 0
  /\ timers = <<Timer("createOrder", 500, OrderData(ValidForm))>>
  /\ view = <<>>
  /\ result = Res("submitCheckoutForm", TRUE, "", <<>>, ValidForm)

NextOrders ==
  \/ \E i \in 1..Len(timers) : FireCreateOrder(i, 0)
  \/ \E i \in 1..Len(timers) : FireGetCart(i)
  \/ Idle /\ \E c \in {"admin@savebite.com", "green@x.com", "bakery@x.com", "CUST@x.com"} :
               Login(c, "pw")
  \/ Idle /\ Logout
  \/ Idle /\ \E id \in Ids(orders) \cup {UnknownId}, st \in {"pending", "completed", "cancelled"} :
               updateOrderStatus(id, st)
  \/ Idle /\ loadOrdersData
  \/ \E i \in 1..Len(timers) : FireGetOrders(i)
  \/ Len(timers) < MaxPending /\
       \E k \in 1..Len(OrderCards), st \in Statuses, c \in BOOLEAN : ClickOrderButton(k, st, c)
  \/ \E i \in 1..Len(timers) : FireUpdateOrderStatus(i)

SpecOrders == InitOrders /\ [][NextOrders]_vars

----------------------------------------------------------------------------
\* C21.  updateOrderStatus succeeds exactly when the order exists and the
\* caller is an admin, or a business user whose id is the businessId of at
\* least one item of the order.  Every other call fails and leaves the orders
\* unchanged; a successful call changes only the status and the updatedAt of
\* the addressed order.

C21_StatusByAdminOrOwner ==
  [][result'.op = "updateOrderStatus" =>
       LET k == IndexOfId(orders, result'.id)
           allowed ==
             /\ k # 0
             /\ getCurrentUser # <<>>
             /\ \/ getCurrentUser[1].role = "admin"
                \/ /\ getCurrentUser[1].role = "business"
                   /\ \E n \in 1..Len(orders[k].items) :
                         orders[k].items[n].businessId = getCurrentUser[1].id
       IN /\ result'.ok <=> allowed
          /\ ~allowed => orders' = orders
          /\ allowed =>
               /\ Len(orders') = Len(orders)
               /\ \A j \in 1..Len(orders) : j # k => orders'[j] = orders[j]
               /\ orders'[k] = [orders[k] EXCEPT !.status = orders'[k].status,
                                                 !.updatedAt = orders'[k].updatedAt]]_vars

\* An order with items of both businesses has been completed by the bakery,
\* the owner of its first item only
C21_Witness ==
  /\ result.op = "updateOrderStatus" /\ result.ok
  /\ getCurrentUser # <<>> /\ getCurrentUser[1].id = BakeryId
  /\ \E k \in 1..Len(orders) :
       /\ orders[k].id = result.id
       /\ Len(orders[k].items) = 2
       /\ orders[k].status = "completed"
       /\ orders[k].updatedAt # <<>>

----------------------------------------------------------------------------
\* Several ApiService calls pending at once

\* The updateListing callback of a pending call
FireUpdateListing(i) ==
  LET id == timers[i].arg.id
      k == IndexOfId(listings, id) IN
  /\ CanFire(i, "updateListing")
  /\ session' = getSession
  /\ IF Unauthorized THEN
       /\ result' = Res("updateListing", FALSE, "unauthorized", id, timers[i].arg.data)
       /\ UNCHANGED listings
     ELSE IF k = 0 THEN
       /\ result' = Res("updateListing", FALSE, "notfound", id, timers[i].arg.data)
       /\ UNCHANGED listings
     ELSE IF NotOwner(getCurrentUser[1], listings[k]) THEN
       /\ result' = Res("updateListing", FALSE, "notowner", id, timers[i].arg.data)
       /\ UNCHANGED listings
     ELSE
       /\ listings' = [listings EXCEPT ![k] = MergeListing(listings[k], timers[i].arg.data)]
       /\ result' = Res("updateListing", TRUE, "", id, timers[i].arg.data)
  /\ timers' = Fired(i)
  /\ UNCHANGED <<users, cart, orders, now, view>>

\* The deleteListing callback of a pending call
FireDeleteListing(i) ==
  LET id == timers[i].arg.id
      k == IndexOfId(listings, id) IN
  /\ CanFire(i, "deleteListing")
  /\ session' = getSession
  /\ IF Unauthorized THEN
       /\ result' = Res("deleteListing", FALSE, "unauthorized", id, <<>>)
       /\ UNCHANGED listings
     ELSE IF k = 0 THEN
       /\ result' = Res("deleteListing", FALSE, "notfound", id, <<>>)
       /\ UNCHANGED listings
     ELSE IF NotOwner(getCurrentUser[1], listings[k]) THEN
       /\ result' = Res("deleteListing", FALSE, "notowner", id, <<>>)
       /\ UNCHANGED listings
     ELSE
       /\ listings' = RemoveAt(listings, k)
       /\ result' = Res("deleteListing", TRUE, "", id, <<>>)
  /\ timers' = Fired(i)
  /\ UNCHANGED <<users, cart, orders, now, view>>

\* The calls that are pending: each method returns a promise and starts its
\* timer with the delay of the method
ApiCalls ==
  { Timer("addToCart", 200, CartItem(InitListings[1], 1)),
    Timer("addToCart", 200, CartItem(InitListings[2], 2)),
    Timer("updateCartItemQuantity", 200, [id |-> PastaId, quantity |-> 2]),
    Timer("updateCartItemQuantity", 200, [id |-> BreadId, quantity |-> 0]),
    Timer("removeFromCart", 200, [id |-> PastaId]),
    Timer("createOrder", 500, OrderData(ValidForm)),
    Timer("updateListing", 300, [id |-> PastaId, data |-> Patch]),
    Timer("deleteListing", 300, [id |-> BreadId]) }

\* The stored collections
Store == [cart |-> cart, listings |-> listings, orders |-> orders]

\* The store after one call has run alone, from the store s, for the current
\* user u (<<>> when nobody is logged in)
RunAlone(s, u, t) ==
  LET k == IndexOfId(s.listings, t.arg.id)
      refused == \/ u = <<>>
                 \/ u[1].role \notin {"business", "admin"}
                 \/ k = 0
                 \/ (u[1].role # "admin" /\ s.listings[k].businessId # u[1].id)
  IN
  IF t.op = "addToCart" THEN [s EXCEPT !.cart = AddItem(s.cart, t.arg)]
  ELSE IF t.op = "updateCartItemQuantity" THEN
    [s EXCEPT !.cart = SetQuantity(s.cart, t.arg.id, t.arg.quantity)]
  ELSE IF t.op = "removeFromCart" THEN [s EXCEPT !.cart = RemoveItem(s.cart, t.arg.id)]
  ELSE IF t.op = "createOrder" THEN
    IF u = <<>> \/ s.cart = <<>> THEN s
    ELSE [cart |-> <<>>,
          listings |-> DecrementListings(s.listings, s.cart),
          orders |-> Append(s.orders, NewOrder(u[1], s.cart, t.arg, 0))]
  ELSE IF t.op = "updateListing" THEN
    IF refused THEN s
    ELSE [s EXCEPT !.listings[k] = MergeListing(s.listings[k], t.arg.data)]
  ELSE IF t.op = "deleteListing" THEN
    IF refused THEN s ELSE [s EXCEPT !.listings = RemoveAt(s.listings, k)]
  ELSE s

InitApi ==
  /\ users = InitUsers
  /\ now = 0
  /\ session \in {<<NewSession(InitUsers[1])>>, <<NewSession(InitUsers[2])>>, <<CustSession>>}
  /\ listings = InitListings
  /\ cart \in {<<>>, <<CartItem(InitListings[1], 1)>>}
  /\ orders = <<>>
  /\ timers \in UNION {[1..n -> ApiCalls] : n \in 1..(MaxPending + 1)}
  /\ view = <<>>
  /\ result = Res("init", TRUE, "", <<>>, <<>>)

NextApi ==
  \/ \E i \in 1..Len(timers) : FireAddToCart(i)
  \/ \E i \in 1..Len(timers) : FireUpdateCartItemQuantity(i)
  \/ \E i \in 1..Len(timers) : FireRemoveFromCart(i)
  \/ \E i \in 1..Len(timers) : FireCreateOrder(i, 0)
  \/ \E i \in 1..Len(timers) : FireUpdateListing(i)
  \/ \E i \in 1..Len(timers) : FireDeleteListing(i)
  \/ \E i \in 1..Len(timers) : FireGetCart(i)

SpecApi == InitApi /\ [][NextApi]_vars

----------------------------------------------------------------------------
\* C22.  Every callback of a pending ApiService call reads, changes and
\* writes the store in one step: whatever the order in which the pending
\* callbacks fire, each firing takes the store to what the call gives when it
\* runs alone on the store as it is then, and leaves the other calls pending,
\* so the final store is that of the calls run one at a time in firing order.

----------------------------------------------------------------------------
\* One browser, several users: Carol fills the cart, users log out, log in
\* and register, and whoever is logged in places the order

NextSwitch ==
  \/ Idle /\ orders = <<>> /\ \E id \in {PastaId, BreadId} : ClickAddToCart(id, 1)
  \/ \E i \in 1..Len(timers) : FireGetListingById(i)
  \/ \E i \in 1..Len(timers) : FireAddToCart(i)
  \/ Idle /\ \E c \in { <<"green@x.com", "pw">>, <<"CUST@x.com", "pw">>, <<"CUST@x.com", "bad">> } :
               Login(c[1], c[2])
  \/ Idle /\ Logout
  \/ Idle /\ Len(users) < MaxUsers /\ register(RegisterData("Dan", "dan@x.com", "pw", "business"), 0)
  \/ Idle /\ Len(orders) < MaxOrders /\ SubmitCheckoutForm(ValidForm)
  \/ \E i \in 1..Len(timers) : FireCreateOrder(i, 0)
  \/ \E i \in 1..Len(timers) : FireGetCart(i)

SpecSwitch == Init /\ [][NextSwitch]_vars

----------------------------------------------------------------------------
\* C23.  The cart is one collection for the whole browser: login, logout and
\* register leave it unchanged, and a successful createOrder places the items
\* that are in the cart for the user who is current then, whoever was logged
\* in when they were added.

C23_CartNotBoundToSession ==
  /\ [][result'.op \in {"login", "logout", "register"} => cart' = cart]_vars
  /\ [][result'.op = "createOrder" /\ result'.ok =>
          /\ Len(orders') = Len(orders) + 1
          /\ orders'[Len(orders')].items = cart
          /\ orders'[Len(orders')].userId = getCurrentUser[1].id]_vars

\* Only customers can add to the cart, and an order of a business user
\* holds the items that Carol added
C23_Witness ==
  /\ result.op = "createOrder" /\ result.ok
  /\ Len(orders) = 1
  /\ orders[1].userId = GreenId
  /\ Len(orders[1].items) = 2

----------------------------------------------------------------------------
\* The home page: featured listings of a store that holds the first mock
\* listings

\* filters: { sortBy: "discount" }.  The call passes limit: 3 beside the
\* filters, in the options, and renderListings reads no limit from its
\* options: getListings gets the filters alone, which carry no limit.
MaxFeatured == 4

FeaturedFilters == Filters(<<>>, "", "", "", "discount", 0)

renderFeaturedListings == renderListings(FeaturedFilters)

InitFeatured ==
  /\ users = InitUsers
  /\ session = <<>>
  /\ listings \in {SubSeq(MockListings, 1, n) : n \in 0..MaxFeatured}
  /\ cart = <<>>
  /\ orders = <<>>
  /\ now = 0
  /\ timers = <<>>
  /\ view = <<>>
  /\ result = Res("init", TRUE, "", <<>>, <<>>)

\* The page renders its featured listings once, when it has loaded; the
\* visitor then logs in and out from the page while days pass
NextFeatured ==
  \/ view = <<>> /\ renderFeaturedListings
  \/ view # <<>> /\ \E c \in Credentials : Login(c[1], c[2])
  \/ view # <<>> /\ Logout
  \/ view # <<>> /\ Tick

SpecFeatured == InitFeatured /\ [][NextFeatured]_vars

----------------------------------------------------------------------------
\* C24.  The featured listings of the home page, rendered with limit 3 and
\* sortBy discount, show at most 3 listings whatever the number of active
\* listings in the store.

C24_FeaturedAtMostThree ==
  result.op = "renderListings" => Len(view[1]) <= 3

----------------------------------------------------------------------------
\* The cart page is open and shows the cart; the customer clicks plus
\* buttons without waiting for the page to show the result

InitPlus ==
  /\ users = InitUsers
  /\ session = <<CustSession>>
  /\ listings = MockListings
  /\ cart \in {<<CartItem(MockListings[k], q)>> : k \in 1..2, q \in 1..2}
              \cup {<<CartItem(MockListings[1], q[1]), CartItem(MockListings[2], q[2])>> :
                      q \in (1..2) \X (1..2)}
  /\ orders = <<>>
  /\ now = 0
  /\ timers = <<>>
  /\ view = <<Rendered(cart)>>
  /\ result = Res("renderCart", TRUE, "", <<>>, <<>>)

NextPlus ==
  \/ Len(timers) < MaxPending /\ \E k \in 1..Len(Rows) : ClickPlus(k)
  \/ \E i \in 1..Len(timers) : FireUpdateCartItemQuantity(i)
  \/ \E i \in 1..Len(timers) : FireGetCart(i)

SpecPlus == InitPlus /\ [][NextPlus]_vars

----------------------------------------------------------------------------
\* C25.  Every click on the plus button of a cart item adds exactly one to
\* the stored quantity of the item, also when it comes before the update and
\* the re-rendering of an earlier click are done: each update that a plus
\* click started leaves the stored quantity one higher than it found it.

C25_PlusAddsOne ==
  [][result'.op = "updateCartItemQuantity" =>
       \E k \in 1..Len(cart) :
          /\ cart[k].id = result'.id
          /\ Len(cart') = Len(cart)
          /\ cart'[k].quantity = cart[k].quantity + 1]_vars

----------------------------------------------------------------------------
\* The checkout form is open on a filled cart and is submitted again and
\* again, also while a createOrder is pending

InitDouble ==
  /\ users = InitUsers
  /\ session = <<CustSession>>
  /\ listings = InitListings
  /\ cart \in {<<CartItem(InitListings[1], q)>> : q \in 1..2}
              \cup {<<CartItem(InitListings[2], 1)>>,
                    <<CartItem(InitListings[1], 1), CartItem(InitListings[2], 1)>>}
  /\ orders = <<>>
  /\ now = 0
  /\ timers = <<>>
  /\ view = <<>>
  /\ result = Res("init", TRUE, "", <<>>, <<>>)

NextDouble ==
  \/ Len(timers) < MaxPending /\ \E f \in CheckoutForms : SubmitCheckoutForm(f)
  \/ \E i \in 1..Len(timers), r \in 0..(NumRandom - 1) : FireCreateOrder(i, r)
  \/ \E i \in 1..Len(timers) : FireGetCart(i)

SpecDouble == InitDouble /\ [][NextDouble]_vars

----------------------------------------------------------------------------
\* C26.  When the checkout form is submitted again before the createOrder of
\* the first submission is done, one order at most is created for the cart
\* and the quantity of each listing goes down once at most: the createOrder
\* that finds the cart empty fails and changes neither orders nor listings.

C26_OneOrderPerCart ==
  /\ [](Len(orders) <= 1)
  /\ [](\A k \in 1..Len(listings) :
          listings[k].quantity =
            InitListings[k].quantity
              - Sum([n \in 1..Len(orders) |->
                       Sum([m \in 1..Len(orders[n].items) |->
                              IF orders[n].items[m].id = listings[k].id
                              THEN orders[n].items[m].quantity ELSE 0])]))
  /\ [][result'.op = "createOrder" /\ cart = <<>> =>
          ~result'.ok /\ orders' = orders /\ listings' = listings]_vars

\* The second createOrder was pending when the first one placed the order,
\* and it has failed on the empty cart
C26_Witness ==
  /\ result.op = "createOrder" /\ ~result.ok /\ result.msg = "empty"
  /\ Len(orders) = 1
  /\ timers = <<Timer("getCart", 100, <<>>)>>

----------------------------------------------------------------------------
\* C27.  Once the status of an order is no longer pending (it is completed
\* or cancelled), no later updateOrderStatus changes it again or takes it
\* back to pending, also when the call comes from a dashboard button that was
\* rendered while the order was pending.

C27_StatusFinal ==
  [][\A k \in 1..Len(orders) :
        orders[k].status # "pending" =>
          Len(orders') >= k /\ orders'[k].status = orders[k].status]_vars

----------------------------------------------------------------------------
\* The admin panel: the add-admin form

AdminForm(fullName, email, password, confirmPassword) ==
  [fullName |-> fullName, email |-> email, password |-> password,
   confirmPassword |-> confirmPassword]

\* Two new administrators, a form whose passwords differ, an address that is
\* taken and a form without a name
AdminForms ==
  { AdminForm("Eve", "eve@x.com", "pw", "pw"),
    AdminForm("Dan", "dan@x.com", "pw2", "pw2"),
    AdminForm("Eve", "eve@x.com", "pw", "pw2"),
    AdminForm("Gina", "green@x.com", "pw", "pw"),
    AdminForm("", "eve@x.com", "pw", "pw") }

\* The submit handler of the add-admin form, on the page that is open for
\* an administrator
SubmitAddAdminForm(f, r) ==
  /\ getCurrentUser # <<>>
  /\ getCurrentUser[1].role = "admin"
  /\ IF f.password # f.confirmPassword THEN
       /\ result' = Res("addAdmin", FALSE, "mismatch", <<>>, f)
       /\ UNCHANGED <<users, session, listings, cart, orders, now, timers, view>>
     ELSE register(RegisterData(f.fullName, f.email, f.password, "admin"), r)

NextAdmin ==
  \/ \E c \in { <<"admin@savebite.com", "pw">>, <<"green@x.com", "pw">>, <<"eve@x.com", "pw">>,
               <<"admin@savebite.com", "bad">> } : Login(c[1], c[2])
  \/ Logout
  \/ Len(users) < MaxUsers + 1 /\
       \E f \in AdminForms, r \in 0..(NumRandom - 1) : SubmitAddAdminForm(f, r)

SpecAdmin == InitUsersSpec /\ [][NextAdmin]_vars

----------------------------------------------------------------------------
\* C28.  When an administrator adds an administrator through the add-admin
\* form, the administrator who submitted the form is still the current user
\* afterwards: the userId of the stored session is unchanged.

C28_AdminStaysCurrent ==
  [][result'.op \in {"register", "addAdmin"} =>
       session' # <<>> /\ session'[1].userId = session[1].userId]_vars

----------------------------------------------------------------------------
\* Days pass between adding to the cart and the checkout

NextExpiry ==
  \/ Idle /\ orders = <<>> /\ \E id \in Ids(listings) : ClickAddToCart(id, 1)
  \/ \E i \in 1..Len(timers) : FireGetListingById(i)
  \/ \E i \in 1..Len(timers) : FireAddToCart(i)
  \/ Idle /\ getListings(NoFilters)
  \/ Idle /\ Len(orders) < MaxOrders /\ SubmitCheckoutForm(ValidForm)
  \/ \E i \in 1..Len(timers) : FireCreateOrder(i, 0)
  \/ \E i \in 1..Len(timers) : FireGetCart(i)
  \/ Tick

SpecExpiry == Init /\ [][NextExpiry]_vars

----------------------------------------------------------------------------
\* C29.  No successful placeOrder records an order item for, or decrements
\* the quantity of, a listing whose expiryDate has passed or whose status is
\* expired when the order is placed, also when the item was put in the cart
\* before the listing expired.

C29_NoExpiredOrdered ==
  [][result'.op = "createOrder" /\ result'.ok /\ now' = now =>
       \A n \in 1..Len(cart), k \in 1..Len(listings) :
          listings[k].id = cart[n].id =>
            ~isExpired(listings[k].expiryDate) /\ listings[k].status # "expired"]_vars

----------------------------------------------------------------------------
\* C30.  The cart never holds two entries with the same listing id: adding an
\* item whose id is in the cart adds the requested quantity to that entry
\* and appends nothing, and removeFromCart, or updateCartItemQuantity with a
\* quantity of 0 or less, removes that entry and no other.

C30_OneEntryPerListing ==
  /\ [](\A i, j \in 1..Len(cart) : cart[i].id = cart[j].id => i = j)
  /\ [][\A i \in 1..Len(timers) :
          /\ timers' \in {RemoveAt(timers, i),
                          Append(RemoveAt(timers, i), Timer("getCart", 100, <<>>))}
          /\ result'.op = timers[i].op
          => LET t == timers[i] IN
             /\ t.op = "addToCart" /\ t.arg.id \in Ids(cart) =>
                  cart' = [k \in 1..Len(cart) |->
                             IF cart[k].id = t.arg.id
                             THEN [cart[k] EXCEPT !.quantity = cart[k].quantity + t.arg.quantity]
                             ELSE cart[k]]
             /\ \/ t.op = "removeFromCart"
                \/ t.op = "updateCartItemQuantity" /\ t.arg.quantity <= 0
                => cart' = SelectSeq(cart, LAMBDA it : it.id # t.arg.id)]_vars

\* Adding pasta to a cart that held it has made its entry 3, beside the
\* entry of the bread
C30_Witness ==
  /\ result.op = "addToCart"
  /\ Len(cart) = 2
  /\ \E k \in 1..Len(cart) : cart[k].id = result.id /\ cart[k].quantity = 3

====
